---- MODULE Spec2Model ----
(***************************************************************************)
(* Model of the package registry's artifact handler (src/artifacts.go):    *)
(* artifactsHandler.ServeHTTP validates the requested version, stats the   *)
(* package directory, and streams the directory as a gzip-compressed tar   *)
(* archive built by filepath.Walk.                                         *)
(*                                                                         *)
(* Strings are sequences of one-character strings, so that parsing,        *)
(* joining and byte-wise comparison are computed rather than assumed.      *)
(***************************************************************************)
EXTENDS Integers, Sequences, FiniteSets, TLC

(***************************************************************************)
(* Bounds of the model.                                                    *)
(***************************************************************************)
\* largest file size (in bytes) the environment may give a file
MaxSize == 1
\* number of changes the environment makes to the package directory while a
\* request is being served
MaxFsChanges == 1
\* number of requests served one after the other (SpecRepeat)
MaxRequests == 2

(***************************************************************************)
(* Bytes and strings.                                                      *)
(***************************************************************************)
\* byte value of the characters that occur in the model's names (ASCII)
Byte ==
  [c \in {"+", "-", ".", "/", "0", "1", "2", "9", "L", "M", "S", "a", "b", "c",
           "e", "g", "h", "i", "l", "m", "o", "p", "r", "s", "t", "u", "x", "y"} |->
     CASE c = "+" -> 43 [] c = "-" -> 45 [] c = "." -> 46 [] c = "/" -> 47
       [] c = "0" -> 48 [] c = "1" -> 49 [] c = "2" -> 50 [] c = "9" -> 57
       [] c = "L" -> 76 [] c = "M" -> 77 [] c = "S" -> 83 [] c = "a" -> 97
       [] c = "b" -> 98 [] c = "c" -> 99 [] c = "e" -> 101 [] c = "g" -> 103
       [] c = "h" -> 104 [] c = "i" -> 105 [] c = "l" -> 108
       [] c = "m" -> 109 [] c = "o" -> 111 [] c = "p" -> 112
       [] c = "r" -> 114 [] c = "s" -> 115 [] c = "t" -> 116
       [] c = "u" -> 117 [] c = "x" -> 120 [] c = "y" -> 121]

\* Go's string comparison s < t: byte-wise lexicographic, a proper prefix first
RECURSIVE StrLess(_, _)
StrLess(s, t) ==
  IF t = <<>> THEN FALSE
  ELSE IF s = <<>> THEN TRUE
  ELSE IF Byte[Head(s)] # Byte[Head(t)] THEN Byte[Head(s)] < Byte[Head(t)]
  ELSE StrLess(Tail(s), Tail(t))

\* index of the first occurrence of character c in s, 0 when absent
\* (strings.IndexRune, 1-based)
IndexOf(s, c) ==
  IF \E i \in 1..Len(s) : s[i] = c
  THEN CHOOSE i \in 1..Len(s) : s[i] = c /\ \A j \in 1..(i - 1) : s[j] # c
  ELSE 0

\* strings.Split(s, "."): the pieces between the dots
RECURSIVE SplitDots(_)
SplitDots(s) ==
  LET i == IndexOf(s, ".")
  IN IF i = 0 THEN <<s>>
     ELSE <<SubSeq(s, 1, i - 1)>> \o SplitDots(SubSeq(s, i + 1, Len(s)))

\* strings.SplitN(s, ".", 3): at most three pieces, the last one unsplit
SplitN3(s) ==
  LET i == IndexOf(s, ".")
  IN IF i = 0 THEN <<s>>
     ELSE LET rest == SubSeq(s, i + 1, Len(s))
              j    == IndexOf(rest, ".")
          IN IF j = 0 THEN <<SubSeq(s, 1, i - 1), rest>>
             ELSE <<SubSeq(s, 1, i - 1), SubSeq(rest, 1, j - 1),
                    SubSeq(rest, j + 1, Len(rest))>>

(***************************************************************************)
(* semver.Parse (github.com/blang/semver), as called by ServeHTTP.         *)
(***************************************************************************)
Numbers == {"0", "1", "2", "9"}
AlphaNum == Numbers \cup {"a", "b", "c", "m", "r", "-"}

containsOnly(s, set) == \A i \in 1..Len(s) : s[i] \in set

hasLeadingZeroes(s) == Len(s) > 1 /\ s[1] = "0"

\* a numeric component: digits only, no leading zero, not empty
NumericOk(s) == containsOnly(s, Numbers) /\ ~hasLeadingZeroes(s) /\ Len(s) > 0

\* one pre-release identifier
PRVersionOk(s) ==
  /\ Len(s) > 0
  /\ IF containsOnly(s, Numbers) THEN ~hasLeadingZeroes(s)
     ELSE containsOnly(s, AlphaNum)

\* one build-metadata identifier
BuildOk(s) == Len(s) > 0 /\ containsOnly(s, AlphaNum)

\* TRUE iff semver.Parse(s) returns a nil error
SemverParseOk(s) ==
  /\ Len(s) > 0
  /\ LET parts == SplitN3(s)
     IN /\ Len(parts) = 3
        /\ NumericOk(parts[1])
        /\ NumericOk(parts[2])
        /\ LET p3       == parts[3]
               bi       == IndexOf(p3, "+")
               build    == IF bi = 0 THEN <<>>
                           ELSE SplitDots(SubSeq(p3, bi + 1, Len(p3)))
               noBuild  == IF bi = 0 THEN p3 ELSE SubSeq(p3, 1, bi - 1)
               pi       == IndexOf(noBuild, "-")
               pre      == IF pi = 0 THEN <<>>
                           ELSE SplitDots(SubSeq(noBuild, pi + 1, Len(noBuild)))
               patchStr == IF pi = 0 THEN noBuild ELSE SubSeq(noBuild, 1, pi - 1)
           IN /\ NumericOk(patchStr)
              /\ \A i \in 1..Len(pre) : PRVersionOk(pre[i])
              /\ \A i \in 1..Len(build) : BuildOk(build[i])

(***************************************************************************)
(* The package store on disk.                                              *)
(***************************************************************************)
NameA  == <<"a">>
NameAB == <<"a", "-", "b">>
NameM  == <<"m">>
NameR  == <<"r">>

\* paths (sequences of names) below a package root that may exist, and what
\* each is when it exists
DirPaths  == {<<NameA>>}
FilePaths == {<<NameA, NameR>>, <<NameAB>>, <<NameM>>}
Paths     == DirPaths \cup FilePaths

Root == <<>>

Parent(p) == SubSeq(p, 1, Len(p) - 1)

NoEntry == [kind |-> "none", size |-> 0, mode |-> "-", mtime |-> 0]

Entries ==
  {NoEntry}
    \cup [kind : {"file"}, size : 0..MaxSize, mode : {"-rw-r--r--"}, mtime : {1}]
    \cup [kind : {"dir"}, size : 0..MaxSize, mode : {"drwxr-xr-x"}, mtime : {1}]

\* the trees a package directory can hold: an entry has the kind of its
\* path, and exists only inside an existing directory
Trees ==
  {t \in [Paths -> Entries] :
     \A p \in Paths :
       /\ t[p].kind \in {"none", IF p \in DirPaths THEN "dir" ELSE "file"}
       /\ (t[p].kind # "none" /\ Len(p) > 1) => t[Parent(p)].kind = "dir"}

EmptyTree == [p \in Paths |-> NoEntry]

\* version strings a request or a directory name may carry
V100 == <<"1", ".", "0", ".", "0">>
V900 == <<"9", ".", "0", ".", "0">>
Vabc == <<"a", ".", "b", ".", "c">>

PackageNames    == {"example", "missing"}
PackageVersions == {V100, V900, Vabc}

\* the (name, version) paths below packagesBasePath whose stat result varies;
\* every other path does not exist
Served    == <<"example", V100>>
Malformed == <<"example", Vabc>>
StoreKeys == {Served, Malformed}

(***************************************************************************)
(* State.                                                                  *)
(***************************************************************************)
VARIABLES
  pkgStat,     \* StoreKeys -> what os.Stat finds there: absent, present, denied
  tree,        \* contents of the directory packagesBasePath/example/1.0.0
  fsChanges,   \* number of changes made to the tree while a request was served
  connected,   \* FALSE once the client has gone away: writes to w fail
  pc,          \* position of the handler
  req,         \* mux.Vars(r): packageName, packageVersion
  served,      \* number of requests started
  status,      \* status line sent on w, 0 while none has been sent
  headers,     \* response header fields set on w
  sink,        \* what has been written to w (or is held for it by the
               \* compressor), in order
  log,         \* messages written with log.Printf
  gzipWriter,  \* the gzip.Writer: state, sticky error, header written
  tarWriter,   \* the tar.Writer: state, sticky error, bytes owed to the entry
  closed,      \* the writers closed so far, in the order they were closed
  stack,       \* filepath.Walk's recursion: directories with names left to visit
  cur,         \* the file whose content is about to be copied
  openFiles,   \* files opened by writeFileContentToArchive and not yet closed
  fsTouched,   \* TRUE once the handler has made a filesystem call
  lastRun      \* the response of the previous request

\* The registry's other components, each exercised by a specification of its
\* own and at rest while the artifact handler runs.
VARIABLES
  cmp          \* a run of the version comparator: two version strings, what
               \* StrictNewVersion made of them, what IsNewerOrEqual answered
VARIABLES
  compat       \* a package built by NewPackage from a manifest's conditions
               \* block and legacy requirement, and what HasKibanaVersion
               \* answered for a query version
VARIABLES
  index,          \* the packages the registry serves, built from their manifests
  query,          \* the query parameters a client sends to /search and /categories
  searchResp,     \* the response of /search to the query
  categoriesResp, \* the response of /categories to the query
  pkgIndex        \* a request of /package/{name}/{version}/ and its response
VARIABLES
  build        \* a run of the generator's BuildPackages over a source directory
VARIABLES
  load,        \* the process working directory and the invocations of the
               \* working-directory-based LoadAssets
  validate,    \* a package as unpacked from its manifest, and what
               \* Package.Validate returned for it
  datasets,    \* a run of LoadDataSets over the dataset directories of a
               \* package
  dataset      \* a dataset as unpacked from its manifest, the files of its
               \* ingest pipeline directory, and what DataSet.Validate returned

artifactVars == <<pkgStat, tree, fsChanges, connected, pc, req, served, status,
                  headers, sink, log, gzipWriter, tarWriter, closed, stack, cur,
                  openFiles, fsTouched, lastRun>>

queryVars == <<index, query, searchResp, categoriesResp, pkgIndex>>

\* the loaders and validators of package.go and dataset.go
loaderVars == <<load, validate, datasets, dataset>>

registryVars == <<cmp, compat, queryVars, build, loaderVars>>

vars == <<artifactVars, registryVars>>

fsVars  == <<pkgStat, tree, fsChanges>>
runVars == <<status, headers, sink, log, gzipWriter, tarWriter, closed, stack,
             cur, openFiles, fsTouched>>

NoReq    == [packageName |-> "", packageVersion |-> <<>>]
NoWriter == [state |-> "none", err |-> "nil", wroteHeader |-> FALSE, remaining |-> 0]
NoRun    == [req |-> NoReq, status |-> 0, sink |-> <<>>]

\* no comparison has been asked for
NoCmp == [step |-> "idle", a |-> <<>>, b |-> <<>>, va |-> <<>>, vb |-> <<>>,
          ab |-> FALSE, ba |-> FALSE, aa |-> FALSE]

\* a manifest without a conditions block
NoConditions == [present |-> FALSE, KibanaVersion |-> <<>>]

\* no package has been built
NoCompat == [step |-> "idle", conditions |-> NoConditions, versions |-> <<>>,
             query |-> <<>>, pkg |-> [err |-> "none", Conditions |-> <<>>],
             answer |-> "none"]

\* no query has been sent
NoQuery == [sent |-> FALSE, package |-> <<>>, category |-> "", kibana |-> <<>>,
            experimental |-> "", internal |-> "", all |-> FALSE]

\* no response has been given
NoResponse == [status |-> -1, body |-> "", result |-> <<>>]

\* no package of the index has been requested
NoPkgIndex == [step |-> "idle", name |-> <<>>, version |-> <<>>, resp |-> NoResponse]

\* nothing is served and nothing is asked
QueryIdle ==
  /\ index = {}
  /\ query = NoQuery
  /\ searchResp = NoResponse
  /\ categoriesResp = NoResponse
  /\ pkgIndex = NoPkgIndex

\* an error value: nil, or what its message carries
NilError == [nil |-> TRUE, wrapped |-> FALSE, path |-> FALSE, msg |-> ""]

\* BuildPackages has not been called
NoBuild == [step |-> "idle", walk |-> "ok", faults |-> <<>>, i |-> 0, built |-> 0,
            err |-> NilError]

\* LoadAssets has not been called: the process is in its original working
\* directory
NoInvocation == [pc |-> "idle", oldDir |-> "", found |-> {}, Assets |-> {},
                 ret |-> "nil", err |-> "nil"]
NoLoad == [cwd |-> "/", inv |-> <<>>, fault |-> <<>>]

\* Package.Validate has not been called
NoValidate == [step |-> "idle", p |-> <<>>, err |-> "nil", category |-> ""]

\* LoadDataSets has not been called
NoDatasets == [step |-> "idle", cwd |-> "/", Name |-> <<>>, Datasources |-> <<>>,
               stat |-> "absent", dirs |-> <<>>, i |-> 0, DataSets |-> <<>>,
               err |-> "nil"]

\* DataSet.Validate has not been called
NoDataSet == [step |-> "idle", manifest |-> <<>>, d |-> <<>>, paths |-> {},
              err |-> "nil"]

\* no loader and no validator runs
LoaderIdle ==
  /\ load = NoLoad
  /\ validate = NoValidate
  /\ datasets = NoDatasets
  /\ dataset = NoDataSet

\* the other components are at rest
RegistryIdle ==
  /\ cmp = NoCmp
  /\ compat = NoCompat
  /\ QueryIdle
  /\ build = NoBuild
  /\ LoaderIdle

Init ==
  /\ RegistryIdle
  /\ pkgStat \in [StoreKeys -> {"absent", "present", "denied"}]
  /\ pkgStat[Malformed] # "denied"
  /\ tree \in Trees
  /\ pkgStat[Served] # "present" => tree = EmptyTree
  /\ fsChanges = 0
  /\ connected = TRUE
  /\ pc = "idle"
  /\ req = NoReq
  /\ served = 0
  /\ status = 0
  /\ headers = {}
  /\ sink = <<>>
  /\ log = <<>>
  /\ gzipWriter = NoWriter
  /\ tarWriter = NoWriter
  /\ closed = <<>>
  /\ stack = <<>>
  /\ cur = Root
  /\ openFiles = 0
  /\ fsTouched = FALSE
  /\ lastRun = NoRun

(***************************************************************************)
(* Filesystem calls.                                                       *)
(***************************************************************************)
\* os.Stat of the package name's directory: the version is not looked at
StatPackageAnyVersion(name, version) ==
  IF \E k \in StoreKeys : k[1] = name /\ pkgStat[k] = "present"
  THEN "present" ELSE "absent"

\* os.Stat(filepath.Join(packagesBasePath, packageName, packageVersion))
StatPackage(name, version) ==
  IF <<name, version>> \in StoreKeys THEN pkgStat[<<name, version>>] ELSE "absent"

\* os.Lstat(path) in tree t: the os.FileInfo, kind "none" when it fails
Lstat(t, path) ==
  [name |-> path[Len(path)], kind |-> t[path].kind, size |-> t[path].size,
   mode |-> t[path].mode, mtime |-> t[path].mtime]

\* the names in directory dir of tree t
NamesIn(t, dir) ==
  {p[Len(p)] : p \in {q \in Paths : Len(q) = Len(dir) + 1 /\ Parent(q) = dir
                                      /\ t[q].kind # "none"}}

\* sort.Strings: the names of a set in increasing byte order
RECURSIVE SortStrings(_)
SortStrings(S) ==
  IF S = {} THEN <<>>
  ELSE LET least == CHOOSE n \in S : \A o \in S \ {n} : StrLess(n, o)
       IN <<least>> \o SortStrings(S \ {least})

\* the names of a set in decreasing byte order
RECURSIVE SortStringsDescending(_)
SortStringsDescending(S) ==
  IF S = {} THEN <<>>
  ELSE LET most == CHOOSE n \in S : \A o \in S \ {n} : StrLess(o, n)
       IN <<most>> \o SortStringsDescending(S \ {most})

\* the names of a directory, not in increasing order
readDirNamesUnsorted(t, dir) == SortStringsDescending(NamesIn(t, dir))

\* filepath.Walk's readDirNames: the sorted names of a directory
readDirNames(t, dir) == SortStrings(NamesIn(t, dir))

\* filepath.Rel(packagePath, path) for a path below the package root: the
\* names joined by the separator
RECURSIVE RelativePath(_)
RelativePath(p) ==
  IF p = <<>> THEN <<".">>
  ELSE IF Len(p) = 1 THEN p[1]
  ELSE p[1] \o <<"/">> \o RelativePath(Tail(p))

(***************************************************************************)
(* The archive: headers and the two writers.                               *)
(***************************************************************************)
\* tar.FileInfoHeader(info, ""): the name is the entry's base name, with "/"
\* for a directory; the size is taken for regular files only
FileInfoHeader(info) ==
  [t     |-> "hdr",
   name  |-> IF info.kind = "dir" THEN info.name \o <<"/">> ELSE info.name,
   size  |-> IF info.kind = "file" THEN info.size ELSE 0,
   mode  |-> info.mode,
   mtime |-> info.mtime,
   type  |-> info.kind]

\* header.Name is left as FileInfoHeader set it
buildArchiveHeaderBaseName(info, relativePath) == FileInfoHeader(info)

\* the modification time is the time of the request, not the entry's
buildArchiveHeaderNow(info, relativePath) ==
  [FileInfoHeader(info) EXCEPT
     !.name = IF info.kind = "dir" THEN relativePath \o <<"/">> ELSE relativePath,
     !.mtime = served]

buildArchiveHeader(info, relativePath) ==
  [FileInfoHeader(info) EXCEPT
     !.name = IF info.kind = "dir" THEN relativePath \o <<"/">> ELSE relativePath]

GzipHeader == [t |-> "gzhdr"]
GzipFooter == [t |-> "gzfoot"]
TarFooter  == [t |-> "tarfoot"]
Data(n)    == [t |-> "data", n |-> n]
Text(msg)  == [t |-> "text", msg |-> msg]

\* the writers and what they have put on w
Pipe == [tar |-> tarWriter, gz |-> gzipWriter, sink |-> sink, status |-> status]

SetPipe(p) ==
  /\ tarWriter' = p.tar
  /\ gzipWriter' = p.gz
  /\ sink' = p.sink
  /\ status' = p.status

\* http.ResponseWriter.Write: the first write sends the status line, 200 when
\* WriteHeader was not called
SinkWrite(p, item) ==
  [p EXCEPT !.sink = Append(@, item),
            !.status = IF @ = 0 THEN 200 ELSE @]

\* gzip.Writer.Write(item): the first write puts the gzip header on w; the
\* compressed data reaches w when the compressor flushes a block.  A write to
\* w fails once the client is gone (flush: the compressor wrote through);
\* what the compressor only buffers then never reaches w.
\* Returns the pipe and ok.
GzipWrite(p, item, flush) ==
  IF p.gz.err # "nil" THEN [pipe |-> p, ok |-> FALSE]
  ELSE IF connected
  THEN LET p1 == IF p.gz.wroteHeader THEN p
                 ELSE [SinkWrite(p, GzipHeader) EXCEPT !.gz.wroteHeader = TRUE]
       IN [pipe |-> SinkWrite(p1, item), ok |-> TRUE]
  ELSE IF ~p.gz.wroteHeader \/ flush
  THEN [pipe |-> [p EXCEPT !.gz.wroteHeader = TRUE, !.gz.err = "io"], ok |-> FALSE]
  ELSE [pipe |-> p, ok |-> TRUE]

\* tar.Writer.WriteHeader(header): flushes the previous entry (an error when
\* bytes are still owed to it), then writes the header block
TarWriteHeader(p, header, flush) ==
  IF p.tar.err # "nil" THEN [pipe |-> p, ok |-> FALSE]
  ELSE IF p.tar.remaining > 0 THEN [pipe |-> p, ok |-> FALSE]
  ELSE LET w == GzipWrite(p, header, flush)
       IN IF w.ok
          THEN [pipe |-> [w.pipe EXCEPT !.tar.remaining = header.size], ok |-> TRUE]
          ELSE [pipe |-> [w.pipe EXCEPT !.tar.err = "io"], ok |-> FALSE]

\* io.Copy(tarWriter, f) for a file of n bytes: tar.Writer.Write accepts at
\* most the bytes owed to the entry and reports ErrWriteTooLong beyond them
TarCopy(p, n, flush) ==
  IF n = 0 THEN [pipe |-> p, ok |-> TRUE]
  ELSE IF p.tar.err # "nil" THEN [pipe |-> p, ok |-> FALSE]
  ELSE LET k == IF n > p.tar.remaining THEN p.tar.remaining ELSE n
           w == IF k > 0 THEN GzipWrite(p, Data(k), flush)
                ELSE [pipe |-> p, ok |-> TRUE]
       IN IF ~w.ok THEN [pipe |-> [w.pipe EXCEPT !.tar.err = "io"], ok |-> FALSE]
          ELSE [pipe |-> [w.pipe EXCEPT !.tar.remaining = @ - k],
                ok   |-> n <= p.tar.remaining]

\* tar.Writer.Close(): reports a sticky error, else flushes the last entry
\* and writes the trailer; always leaves the writer closed
TarClose(p, flush) ==
  IF p.tar.err # "nil"
  THEN [pipe |-> [p EXCEPT !.tar.state = "closed"], ok |-> FALSE]
  ELSE IF p.tar.remaining > 0
  THEN [pipe |-> [p EXCEPT !.tar.state = "closed", !.tar.err = "closed"],
        ok   |-> FALSE]
  ELSE LET w == GzipWrite(p, TarFooter, flush)
       IN [pipe |-> [w.pipe EXCEPT !.tar.state = "closed", !.tar.err = "closed"],
           ok   |-> w.ok]

\* gzip.Writer.Close(): reports a sticky error, else writes the header if no
\* write did, flushes the compressor to w and writes the gzip footer
GzipClose(p) ==
  IF p.gz.err # "nil"
  THEN [pipe |-> [p EXCEPT !.gz.state = "closed"], ok |-> FALSE]
  ELSE IF ~connected
  THEN [pipe |-> [p EXCEPT !.gz.state = "closed", !.gz.err = "io",
                           !.gz.wroteHeader = TRUE],
        ok   |-> FALSE]
  ELSE LET p1 == IF p.gz.wroteHeader THEN p
                 ELSE [SinkWrite(p, GzipHeader) EXCEPT !.gz.wroteHeader = TRUE]
       IN [pipe |-> [SinkWrite(p1, GzipFooter) EXCEPT !.gz.state = "closed"],
           ok   |-> TRUE]

(***************************************************************************)
(* Responses written by the helpers.                                       *)
(***************************************************************************)
\* http.Error(w, msg, code)
HttpError(p, msg, code) == [p EXCEPT !.status = code, !.sink = Append(@, Text(msg))]

badRequest(p, msg) == HttpError(p, msg, 400)

notFoundError(p, err) == HttpError(p, err, 404)

errArtifactNotFound == "artifact not found"

(***************************************************************************)
(* artifactsHandler.ServeHTTP, step by step.                               *)
(***************************************************************************)
Streaming == {"walkroot", "walk", "open", "copy", "closeTar", "closeGz"}

\* a request arrives: mux.Vars(r)
Request(name, version) ==
  /\ pc = "idle"
  /\ pc' = "parse"
  /\ req' = [packageName |-> name, packageVersion |-> version]
  /\ served' = served + 1
  /\ UNCHANGED <<fsVars, connected, runVars, lastRun>>
  /\ UNCHANGED registryVars

\* the version check left out
ParseVersionUnchecked ==
  /\ pc = "parse"
  /\ pc' = "stat"
  /\ UNCHANGED <<fsVars, connected, req, served, runVars, lastRun>>
  /\ UNCHANGED registryVars

\* semver.Parse(packageVersion); badRequest and return on an error
ParseVersion ==
  /\ pc = "parse"
  /\ IF SemverParseOk(req.packageVersion)
     THEN /\ pc' = "stat"
          /\ UNCHANGED <<status, sink>>
     ELSE /\ pc' = "done"
          /\ status' = badRequest(Pipe, "invalid package version").status
          /\ sink' = badRequest(Pipe, "invalid package version").sink
  /\ UNCHANGED <<fsVars, connected, req, served, headers, log, gzipWriter,
                 tarWriter, closed, stack, cur, openFiles, fsTouched, lastRun>>
  /\ UNCHANGED registryVars

\* the return after notFoundError left out
StatPackagePathNoReturn ==
  /\ pc = "stat"
  /\ fsTouched' = TRUE
  /\ LET found == StatPackage(req.packageName, req.packageVersion)
     IN CASE found = "absent" ->
               /\ pc' = "create"
               /\ status' = notFoundError(Pipe, errArtifactNotFound).status
               /\ sink' = notFoundError(Pipe, errArtifactNotFound).sink
               /\ UNCHANGED log
          [] found = "denied" ->
               /\ pc' = "done"
               /\ log' = Append(log, "stat package path failed")
               /\ status' = HttpError(Pipe, "internal server error", 500).status
               /\ sink' = HttpError(Pipe, "internal server error", 500).sink
          [] OTHER ->
               /\ pc' = "create"
               /\ UNCHANGED <<status, sink, log>>
  /\ UNCHANGED <<fsVars, connected, req, served, headers, gzipWriter, tarWriter,
                 closed, stack, cur, openFiles, lastRun>>
  /\ UNCHANGED registryVars

\* the handler with its "if err != nil" branch after os.Stat left out
StatPackagePathIgnoresError ==
  /\ pc = "stat"
  /\ fsTouched' = TRUE
  /\ LET found == StatPackage(req.packageName, req.packageVersion)
     IN IF found = "absent"
        THEN /\ pc' = "done"
             /\ status' = notFoundError(Pipe, errArtifactNotFound).status
             /\ sink' = notFoundError(Pipe, errArtifactNotFound).sink
        ELSE /\ pc' = "create"
             /\ UNCHANGED <<status, sink>>
  /\ UNCHANGED <<fsVars, connected, req, served, headers, log, gzipWriter,
                 tarWriter, closed, stack, cur, openFiles, lastRun>>
  /\ UNCHANGED registryVars

\* os.Stat(packagePath): 404 when it does not exist, 500 on another error
StatPackagePath ==
  /\ pc = "stat"
  /\ fsTouched' = TRUE
  /\ LET found == StatPackage(req.packageName, req.packageVersion)
     IN CASE found = "absent" ->
               /\ pc' = "done"
               /\ status' = notFoundError(Pipe, errArtifactNotFound).status
               /\ sink' = notFoundError(Pipe, errArtifactNotFound).sink
               /\ UNCHANGED log
          [] found = "denied" ->
               /\ pc' = "done"
               /\ log' = Append(log, "stat package path failed")
               /\ status' = HttpError(Pipe, "internal server error", 500).status
               /\ sink' = HttpError(Pipe, "internal server error", 500).sink
          [] OTHER ->
               /\ pc' = "create"
               /\ UNCHANGED <<status, sink, log>>
  /\ UNCHANGED <<fsVars, connected, req, served, headers, gzipWriter, tarWriter,
                 closed, stack, cur, openFiles, lastRun>>
  /\ UNCHANGED registryVars

\* gzip.NewWriter(w), tar.NewWriter(gzipWriter), the deferred closes are
\* registered, Content-Type and the cache headers are set
NewWriters ==
  /\ pc = "create"
  /\ pc' = "walkroot"
  /\ gzipWriter' = [NoWriter EXCEPT !.state = "open"]
  /\ tarWriter' = [NoWriter EXCEPT !.state = "open"]
  /\ headers' = {"Content-Type: application/gzip", "Cache-Control"}
  /\ UNCHANGED <<fsVars, connected, req, served, status, sink, log, closed,
                 stack, cur, openFiles, fsTouched, lastRun>>
  /\ UNCHANGED registryVars

\* the frames of the walk that still have names to visit
RECURSIVE Unwind(_)
Unwind(st) ==
  IF st = <<>> THEN <<>>
  ELSE IF st[Len(st)].names = <<>> THEN Unwind(SubSeq(st, 1, Len(st) - 1))
  ELSE st

\* the walk function logs its error and returns nil: the walk goes on
WalkFailedSwallowed ==
  /\ pc' = "walk"
  /\ log' = Append(log, "walking package path failed")
  /\ stack' = IF pc = "walk"
              THEN [Unwind(stack) EXCEPT ![Len(Unwind(stack))].names = Tail(@)]
              ELSE stack
  /\ UNCHANGED registryVars

\* the closes run at the end of the walk instead of being deferred
WalkFailedNoClose ==
  /\ pc' = "done"
  /\ log' = Append(log, "walking package path failed")
  /\ stack' = <<>>
  /\ UNCHANGED registryVars

\* the walk function returned an error: filepath.Walk returns it, it is
\* logged, and ServeHTTP returns into the deferred closes
WalkFailed ==
  /\ pc' = "closeTar"
  /\ log' = Append(log, "walking package path failed")
  /\ stack' = <<>>
  /\ UNCHANGED registryVars

\* the walk function does not return early for the root: it writes a header
\* for "."
WalkRootEmitsHeader ==
  /\ pc = "walkroot"
  /\ pc' = "walk"
  /\ stack' = <<[dir |-> Root, names |-> readDirNames(tree, Root)]>>
  /\ SetPipe(TarWriteHeader(Pipe,
       [t |-> "hdr", name |-> <<".", "/">>, size |-> 0, mode |-> "drwxr-xr-x",
        mtime |-> 1, type |-> "dir"], TRUE).pipe)
  /\ UNCHANGED <<fsVars, connected, req, served, headers, log, closed, cur,
                 openFiles, fsTouched, lastRun>>
  /\ UNCHANGED registryVars

\* filepath.Walk(packagePath, ...): the root is listed and visited; its
\* relative path is "." and it writes nothing
WalkRoot ==
  /\ pc = "walkroot"
  /\ pc' = "walk"
  /\ stack' = <<[dir |-> Root, names |-> readDirNames(tree, Root)]>>
  /\ UNCHANGED <<fsVars, connected, req, served, status, headers, sink, log,
                 gzipWriter, tarWriter, closed, cur, openFiles, fsTouched, lastRun>>
  /\ UNCHANGED registryVars

\* the walk visits the next name: lstat, then the walk function builds and
\* writes the header; a directory is listed and descended into, a file's
\* content is copied next
WalkEntry ==
  /\ pc = "walk"
  /\ LET st == Unwind(stack)
     IN IF st = <<>>
        THEN /\ pc' = "closeTar"
             /\ stack' = <<>>
             /\ UNCHANGED <<status, sink, log, gzipWriter, tarWriter, cur>>
        ELSE LET top  == st[Len(st)]
                 path == Append(top.dir, Head(top.names))
                 info == Lstat(tree, path)
                 rest == [st EXCEPT ![Len(st)].names = Tail(top.names)]
             IN IF info.kind = "none"
                THEN /\ WalkFailed
                     /\ UNCHANGED <<status, sink, gzipWriter, tarWriter, cur>>
                ELSE \E flush \in IF connected THEN {TRUE} ELSE BOOLEAN :
                       LET header == buildArchiveHeader(info, RelativePath(path))
                           w      == TarWriteHeader(Pipe, header, flush)
                       IN /\ SetPipe(w.pipe)
                          /\ IF ~w.ok
                             THEN /\ WalkFailed
                                  /\ UNCHANGED cur
                             ELSE IF info.kind = "dir"
                             THEN /\ pc' = "walk"
                                  /\ stack' = Append(rest,
                                       [dir |-> path, names |-> readDirNames(tree, path)])
                                  /\ UNCHANGED <<log, cur>>
                             ELSE /\ pc' = "open"
                                  /\ stack' = rest
                                  /\ cur' = path
                                  /\ UNCHANGED log
  /\ UNCHANGED <<fsVars, connected, req, served, headers, closed, openFiles,
                 fsTouched, lastRun>>
  /\ UNCHANGED registryVars

\* writeFileContentToArchive: os.Open(path)
OpenFile ==
  /\ pc = "open"
  /\ IF tree[cur].kind = "none"
     THEN /\ WalkFailed
          /\ UNCHANGED openFiles
     ELSE /\ pc' = "copy"
          /\ openFiles' = openFiles + 1
          /\ UNCHANGED <<log, stack>>
  /\ UNCHANGED <<fsVars, connected, req, served, status, headers, sink,
                 gzipWriter, tarWriter, closed, cur, fsTouched, lastRun>>
  /\ UNCHANGED registryVars

\* writeFileContentToArchive returns without copying
CopyContentNothing ==
  /\ pc = "copy"
  /\ pc' = "walk"
  /\ openFiles' = openFiles - 1
  /\ UNCHANGED <<fsVars, connected, req, served, status, headers, sink, log,
                 gzipWriter, tarWriter, closed, stack, cur, fsTouched, lastRun>>
  /\ UNCHANGED registryVars

\* writeFileContentToArchive closes f after a copy without error only
CopyContentLeaks ==
  /\ pc = "copy"
  /\ \E flush \in IF connected THEN {TRUE} ELSE BOOLEAN :
       LET w == TarCopy(Pipe, tree[cur].size, flush)
       IN /\ SetPipe(w.pipe)
          /\ IF w.ok
             THEN /\ pc' = "walk"
                  /\ openFiles' = openFiles - 1
                  /\ UNCHANGED <<log, stack>>
             ELSE /\ WalkFailed
                  /\ UNCHANGED openFiles
  /\ UNCHANGED <<fsVars, connected, req, served, headers, closed, cur,
                 fsTouched, lastRun>>
  /\ UNCHANGED registryVars

\* writeFileContentToArchive: io.Copy(writer, f), then the deferred f.Close()
CopyContent ==
  /\ pc = "copy"
  /\ \E flush \in IF connected THEN {TRUE} ELSE BOOLEAN :
       LET w == TarCopy(Pipe, tree[cur].size, flush)
       IN /\ SetPipe(w.pipe)
          /\ IF w.ok
             THEN /\ pc' = "walk"
                  /\ UNCHANGED <<log, stack>>
             ELSE WalkFailed
  /\ openFiles' = openFiles - 1
  /\ UNCHANGED <<fsVars, connected, req, served, headers, closed, cur,
                 fsTouched, lastRun>>
  /\ UNCHANGED registryVars

\* the deferred function returns when tarWriter.Close() fails
CloseTarReturnsOnError ==
  /\ pc = "closeTar"
  /\ \E flush \in IF connected THEN {TRUE} ELSE BOOLEAN :
       LET w == TarClose(Pipe, flush)
       IN /\ SetPipe(w.pipe)
          /\ log' = IF w.ok THEN log ELSE Append(log, "closing tar writer failed")
          /\ pc' = IF w.ok THEN "closeGz" ELSE "done"
  /\ closed' = Append(closed, "tar")
  /\ UNCHANGED <<fsVars, connected, req, served, headers, stack, cur, openFiles,
                 fsTouched, lastRun>>
  /\ UNCHANGED registryVars

\* the deferred function, first half: tarWriter.Close(), an error is logged
CloseTar ==
  /\ pc = "closeTar"
  /\ pc' = "closeGz"
  /\ \E flush \in IF connected THEN {TRUE} ELSE BOOLEAN :
       LET w == TarClose(Pipe, flush)
       IN /\ SetPipe(w.pipe)
          /\ log' = IF w.ok THEN log ELSE Append(log, "closing tar writer failed")
  /\ closed' = Append(closed, "tar")
  /\ UNCHANGED <<fsVars, connected, req, served, headers, stack, cur, openFiles,
                 fsTouched, lastRun>>
  /\ UNCHANGED registryVars

\* the deferred function, second half: gzipWriter.Close(), an error is logged
CloseGzip ==
  /\ pc = "closeGz"
  /\ pc' = "done"
  /\ LET w == GzipClose(Pipe)
     IN /\ SetPipe(w.pipe)
        /\ log' = IF w.ok THEN log ELSE Append(log, "closing gzip writer failed")
  /\ closed' = Append(closed, "gzip")
  /\ UNCHANGED <<fsVars, connected, req, served, headers, stack, cur, openFiles,
                 fsTouched, lastRun>>
  /\ UNCHANGED registryVars

(***************************************************************************)
(* The environment: the store changes and the client leaves while the      *)
(* archive is being streamed.                                              *)
(***************************************************************************)
\* a file or an empty directory is removed (an open file stays readable, so
\* its removal is not distinguished)
EnvRemove(p) ==
  /\ pc \in Streaming
  /\ fsChanges < MaxFsChanges
  /\ tree[p].kind # "none"
  /\ NamesIn(tree, p) = {}
  /\ ~(openFiles > 0 /\ p = cur)
  /\ tree' = [tree EXCEPT ![p] = NoEntry]
  /\ fsChanges' = fsChanges + 1
  /\ UNCHANGED <<pkgStat, connected, pc, req, served, runVars, lastRun>>
  /\ UNCHANGED registryVars

\* a file is rewritten with n bytes
EnvWrite(p, n) ==
  /\ pc \in Streaming
  /\ fsChanges < MaxFsChanges
  /\ tree[p].kind = "file"
  /\ tree[p].size # n
  /\ tree' = [tree EXCEPT ![p].size = n, ![p].mtime = 2]
  /\ fsChanges' = fsChanges + 1
  /\ UNCHANGED <<pkgStat, connected, pc, req, served, runVars, lastRun>>
  /\ UNCHANGED registryVars

\* the client disconnects
Disconnect ==
  /\ pc \in Streaming
  /\ connected
  /\ connected' = FALSE
  /\ UNCHANGED <<fsVars, pc, req, served, runVars, lastRun>>
  /\ UNCHANGED registryVars

\* the handler has returned; the server takes the next request on a new
\* connection
NextRequest ==
  /\ pc = "done"
  /\ served < MaxRequests
  /\ pc' = "idle"
  /\ lastRun' = [req |-> req, status |-> status, sink |-> sink]
  /\ connected' = TRUE
  /\ req' = NoReq
  /\ status' = 0
  /\ headers' = {}
  /\ sink' = <<>>
  /\ log' = <<>>
  /\ gzipWriter' = NoWriter
  /\ tarWriter' = NoWriter
  /\ closed' = <<>>
  /\ stack' = <<>>
  /\ cur' = Root
  /\ openFiles' = 0
  /\ fsTouched' = FALSE
  /\ UNCHANGED <<fsVars, served>>
  /\ UNCHANGED registryVars

\* the steps of ServeHTTP
Handler ==
  \/ \E name \in PackageNames, version \in PackageVersions : Request(name, version)
  \/ ParseVersion
  \/ StatPackagePath
  \/ NewWriters
  \/ WalkRoot
  \/ WalkEntry
  \/ OpenFile
  \/ CopyContent
  \/ CloseTar
  \/ CloseGzip

\* one request, served while the store may change and the client may leave
Next ==
  \/ Handler
  \/ \E p \in Paths : EnvRemove(p)
  \/ \E p \in FilePaths, n \in 0..MaxSize : EnvWrite(p, n)
  \/ Disconnect

Spec == Init /\ [][Next]_vars

\* requests served one after the other from an unchanged store
NextRepeat ==
  \/ Handler
  \/ NextRequest

SpecRepeat == Init /\ [][NextRepeat]_vars

(***************************************************************************)
(* Properties of the artifact handler.                                     *)
(***************************************************************************)
Range(f) == {f[i] : i \in DOMAIN f}

\* the items of a response body that belong to the archive stream
ArchiveItems(body) == {x \in Range(body) : x.t # "text"}

\* the headers and file contents of archive members in a response body
EntryItems(body) == SelectSeq(body, LAMBDA x : x.t \in {"hdr", "data"})

\* the archive member headers in a response body
Members(body) == SelectSeq(body, LAMBDA x : x.t = "hdr")

Requested == req # NoReq

\* a directory exists at packagesBasePath/packageName/packageVersion
PackageExists ==
  /\ <<req.packageName, req.packageVersion>> \in StoreKeys
  /\ pkgStat[<<req.packageName, req.packageVersion>>] = "present"

\* nothing exists at packagesBasePath/packageName/packageVersion
PackageAbsent ==
  \/ <<req.packageName, req.packageVersion>> \notin StoreKeys
  \/ pkgStat[<<req.packageName, req.packageVersion>>] = "absent"

WalkErrorLogged == "walking package path failed" \in Range(log)

\* C1: a request whose packageVersion is not a semantic version is answered
\* 400 "invalid package version", whether or not a directory of that name and
\* version exists; the handler makes no filesystem call for it, never goes
\* past the version check, and never answers 404.
C1_MalformedVersionIs400 ==
  (Requested /\ ~SemverParseOk(req.packageVersion)) =>
     /\ pc \in {"parse", "done"}
     /\ ~fsTouched
     /\ status \in {0, 400}
     /\ pc = "done" => /\ status = 400
                       /\ sink = <<Text("invalid package version")>>

C1_Witness ==
  /\ pc = "done"
  /\ req = [packageName |-> "example", packageVersion |-> Vabc]
  /\ pkgStat[Malformed] = "present"
  /\ status = 400

\* C2: a request with a well-formed version for which nothing exists at that
\* exact (name, version) is answered 404 "artifact not found"; no gzip or tar
\* writer is created for it and no archive byte is written.
C2_MissingPackageIs404 ==
  (Requested /\ SemverParseOk(req.packageVersion) /\ PackageAbsent) =>
     /\ gzipWriter.state = "none"
     /\ tarWriter.state = "none"
     /\ closed = <<>>
     /\ ArchiveItems(sink) = {}
     /\ status \in {0, 404}
     /\ pc = "done" => /\ status = 404
                       /\ sink = <<Text(errArtifactNotFound)>>

C2_Witness ==
  /\ pc = "done"
  /\ req = [packageName |-> "example", packageVersion |-> V900]
  /\ pkgStat[Served] = "present"
  /\ status = 404

\* C3: archive bytes are on the sink only if the version parsed and the
\* package directory exists, and only once the handler is past both checks;
\* the first archive byte is written by a step that follows them.
C3_NoArchiveByteBeforeChecks ==
  ArchiveItems(sink) # {} =>
     /\ SemverParseOk(req.packageVersion)
     /\ PackageExists
     /\ pc \in {"walk", "open", "copy", "closeTar", "closeGz", "done"}
     /\ sink[1] = GzipHeader
     /\ status = 200

C3_Witness ==
  /\ pc = "walk"
  /\ Len(sink) = 2
  /\ sink[1] = GzipHeader
  /\ sink[2].t = "hdr"

\* C4: a status that has been sent never changes; a step that ends the walk
\* before all entries were visited logs the error; and once the walk has
\* failed the handler only runs its deferred closes: no member header and no
\* file content is written after the failure.
C4_MidWalkErrorTruncates ==
  [][/\ status # 0 => status' = status
     /\ (/\ pc \in {"walk", "open", "copy"}
         /\ pc' = "closeTar"
         /\ ~(pc = "walk" /\ Unwind(stack) = <<>>))
          => log' = Append(log, "walking package path failed")
     /\ WalkErrorLogged => /\ EntryItems(sink') = EntryItems(sink)
                           /\ pc' \in {"closeTar", "closeGz", "done"}]_vars

C4_Witness ==
  /\ pc = "done"
  /\ WalkErrorLogged
  /\ status = 200
  /\ Len(Members(sink)) = 2
  /\ NamesIn(tree, Root) = {NameA, NameM}

\* C5: the handler never leaves a writer open when it returns, and never
\* closes the gzip writer before the tar writer: on every exit path on which
\* the writers exist (success or mid-walk error) the tar writer is closed
\* first and the gzip writer second; a request that fails validation returns
\* before any writer exists.
C5_CloseOrder ==
  /\ closed \in {<<>>, <<"tar">>, <<"tar", "gzip">>}
  /\ gzipWriter.state = "closed" => tarWriter.state = "closed"
  /\ (tarWriter.state = "closed") = ("tar" \in Range(closed))
  /\ (gzipWriter.state = "closed") = ("gzip" \in Range(closed))
  /\ pc = "done" =>
       \/ /\ tarWriter.state = "closed"
          /\ gzipWriter.state = "closed"
          /\ closed = <<"tar", "gzip">>
       \/ /\ tarWriter.state = "none"
          /\ gzipWriter.state = "none"
          /\ closed = <<>>
          /\ ArchiveItems(sink) = {}

C5_Witness ==
  /\ pc = "done"
  /\ WalkErrorLogged
  /\ closed = <<"tar", "gzip">>
  /\ ~connected

\* the handler walked the whole directory and closed both writers without
\* an error
Succeeded == pc = "done" /\ closed = <<"tar", "gzip">> /\ log = <<>>

\* the entries below the package root
Existing == {p \in Paths : tree[p].kind # "none"}

\* the archive member name of an existing entry: its relative path, with "/"
\* for a directory
MemberName(p) ==
  IF tree[p].kind = "dir" THEN RelativePath(p) \o <<"/">> ELSE RelativePath(p)

\* the pieces of s between the separators
RECURSIVE SplitSlash(_)
SplitSlash(s) ==
  LET i == IndexOf(s, "/")
  IN IF i = 0 THEN <<s>>
     ELSE <<SubSeq(s, 1, i - 1)>> \o SplitSlash(SubSeq(s, i + 1, Len(s)))

\* the names a member name is made of (the "/" that ends a directory's name
\* adds none)
NameParts(name) == SelectSeq(SplitSlash(name), LAMBDA part : part # <<>>)

\* p before q when compared name by name in byte order, a parent before what
\* it contains
RECURSIVE PathLess(_, _)
PathLess(p, q) ==
  IF q = <<>> THEN FALSE
  ELSE IF p = <<>> THEN TRUE
  ELSE IF Head(p) # Head(q) THEN StrLess(Head(p), Head(q))
  ELSE PathLess(Tail(p), Tail(q))

\* a set of paths as a sequence increasing in PathLess
RECURSIVE SortPaths(_)
SortPaths(S) ==
  IF S = {} THEN <<>>
  ELSE LET least == CHOOSE p \in S : \A q \in S \ {p} : PathLess(p, q)
       IN <<least>> \o SortPaths(S \ {least})

\* a set of strings as a sequence increasing in byte order
RECURSIVE SortLex(_)
SortLex(S) ==
  IF S = {} THEN <<>>
  ELSE LET least == CHOOSE x \in S : \A y \in S \ {x} : StrLess(x, y)
       IN <<least>> \o SortLex(S \ {least})

\* listing an archive: the size and name of each member, in archive order
Listing(body) ==
  [i \in 1..Len(Members(body)) |-> <<Members(body)[i].size, Members(body)[i].name>>]

\* C6 as stated: on success the member names are in increasing byte order of
\* the path strings.
C6_Original ==
  Succeeded =>
    \A i, j \in 1..Len(Members(sink)) :
      i < j => StrLess(Members(sink)[i].name, Members(sink)[j].name)

\* C6: on success the members are in the order of the walk: increasing when
\* their paths are compared name by name (each name in byte order), so that a
\* directory is followed by everything it contains before its next sibling.
C6_WalkOrder ==
  Succeeded =>
    \A i, j \in 1..Len(Members(sink)) :
      i < j => PathLess(NameParts(Members(sink)[i].name),
                        NameParts(Members(sink)[j].name))

C6_Witness ==
  /\ Succeeded
  /\ Len(Members(sink)) = 4
  /\ Members(sink)[1].name = <<"a", "/">>
  /\ Members(sink)[2].name = <<"a", "/", "r">>
  /\ Members(sink)[3].name = <<"a", "-", "b">>
  /\ Members(sink)[4].name = <<"m">>

\* C7 as stated: the listing of the archive of an unchanged directory is the
\* entries below the root, by name and by the size the filesystem reports, in
\* increasing byte order of the names.
C7_Original ==
  (Succeeded /\ fsChanges = 0) =>
    LET names == SortLex({MemberName(p) : p \in Existing})
    IN Listing(sink) =
         [i \in 1..Len(names) |->
            <<tree[CHOOSE p \in Existing : MemberName(p) = names[i]].size, names[i]>>]

\* C7: the listing of the archive of an unchanged directory names exactly the
\* entries below the root, each once, in the order of the walk (paths compared
\* name by name); a file member has the file's size, a directory member has
\* size 0 whatever the filesystem reports for the directory.
C7_RoundTrip ==
  (Succeeded /\ fsChanges = 0) =>
    LET walk == SortPaths(Existing)
    IN Listing(sink) =
         [i \in 1..Len(walk) |->
            <<IF tree[walk[i]].kind = "file" THEN tree[walk[i]].size ELSE 0,
              MemberName(walk[i])>>]

C7_Witness ==
  /\ Succeeded
  /\ fsChanges = 0
  /\ Listing(sink) = <<<<0, <<"a", "/">> >>, <<1, <<"a", "/", "r">> >>,
                       <<0, <<"a", "-", "b">> >>, <<1, <<"m">> >> >>
  /\ tree[<<NameA>>].size = 1

\* C8: two requests for the same package served one after the other from an
\* unchanged directory produce the same response: the same members in the
\* same order with the same name, size, mode, modification time and type.
C8_Deterministic ==
  (pc = "done" /\ lastRun.req = req) =>
     /\ sink = lastRun.sink
     /\ status = lastRun.status

C8_Witness ==
  /\ pc = "done"
  /\ lastRun.req = req
  /\ Len(Members(sink)) = 4
  /\ sink = lastRun.sink

\* C9: no archive ever has a member for the package root or two members of
\* one name; the archive of an unchanged directory has, for every entry below
\* the root, exactly one member, named by the entry's relative path with "/"
\* appended if and only if the entry is a directory, and no other member.
C9_OneHeaderPerEntry ==
  /\ \A i \in 1..Len(Members(sink)) :
       /\ Members(sink)[i].name \notin {<<".">>, <<".", "/">>}
       /\ \A j \in 1..Len(Members(sink)) :
            Members(sink)[i].name = Members(sink)[j].name => i = j
  /\ (Succeeded /\ fsChanges = 0) =>
       /\ Len(Members(sink)) = Cardinality(Existing)
       /\ \A p \in Existing :
            \E i \in 1..Len(Members(sink)) :
              /\ Members(sink)[i].name = MemberName(p)
              /\ Members(sink)[i].type = tree[p].kind
              /\ (Members(sink)[i].name[Len(Members(sink)[i].name)] = "/")
                   = (tree[p].kind = "dir")

C9_Witness ==
  /\ Succeeded
  /\ fsChanges = 0
  /\ Existing = {<<NameA>>, <<NameA, NameR>>, <<NameAB>>}
  /\ Len(Members(sink)) = 3

PackageDenied ==
  /\ <<req.packageName, req.packageVersion>> \in StoreKeys
  /\ pkgStat[<<req.packageName, req.packageVersion>>] = "denied"

\* C19: a request with a well-formed version whose package path cannot be
\* examined (os.Stat fails with an error other than not-exist) is answered
\* 500 with the fixed body "internal server error" and nothing else, the
\* failure is logged, no gzip or tar writer is created and no archive byte
\* is written.
C19_StatErrorIs500 ==
  (Requested /\ SemverParseOk(req.packageVersion) /\ PackageDenied) =>
     /\ gzipWriter.state = "none"
     /\ tarWriter.state = "none"
     /\ closed = <<>>
     /\ ArchiveItems(sink) = {}
     /\ status \in {0, 500}
     /\ pc \in {"parse", "stat", "done"}
     /\ pc = "done" => /\ status = 500
                       /\ sink = <<Text("internal server error")>>
                       /\ log = <<"stat package path failed">>

C19_Witness ==
  /\ pc = "done"
  /\ req = [packageName |-> "example", packageVersion |-> V100]
  /\ pkgStat[Served] = "denied"
  /\ status = 500
  /\ log # <<>>

(***************************************************************************)
(* Versions (github.com/Masterminds/semver/v3), as util.Package uses them: *)
(* Validate parses the manifest's version with semver.StrictNewVersion,    *)
(* IsNewerOrEqual compares two packages with Version.LessThan.             *)
(***************************************************************************)
\* value of a decimal digit
DigitValue ==
  [c \in Numbers |-> CASE c = "0" -> 0 [] c = "1" -> 1 [] c = "2" -> 2 [] c = "9" -> 9]

\* strconv.ParseUint(s, 10, 64) of a non-empty string of digits
RECURSIVE ParseUint(_)
ParseUint(s) ==
  IF s = <<>> THEN 0
  ELSE ParseUint(SubSeq(s, 1, Len(s) - 1)) * 10 + DigitValue[s[Len(s)]]

\* the result of a failed parse: a nil *Version and an error
NoVersion ==
  [err |-> "invalid", major |-> 0, minor |-> 0, patch |-> 0, pre |-> <<>>,
   metadata |-> <<>>]

\* every dot-separated part is numeric without a leading zero, or is made of
\* letters, digits and hyphens (an empty part passes both tests)
validatePrerelease(pre) ==
  \A i \in 1..Len(SplitDots(pre)) :
     LET part == SplitDots(pre)[i]
     IN IF containsOnly(part, Numbers)
        THEN ~(Len(part) > 1 /\ part[1] = "0")
        ELSE containsOnly(part, AlphaNum)

validateMetadata(m) ==
  \A i \in 1..Len(SplitDots(m)) : containsOnly(SplitDots(m)[i], AlphaNum)

\* semver.StrictNewVersion(v): major.minor.patch[-pre][+metadata]; the build
\* metadata is cut off at the first "+", then the pre-release at the first
\* "-"; an empty pre-release or metadata is not validated
StrictNewVersion(v) ==
  IF Len(v) = 0 THEN NoVersion
  ELSE LET parts == SplitN3(v)
       IN IF Len(parts) # 3 THEN NoVersion
          ELSE LET p3       == parts[3]
                   bi       == IndexOf(p3, "+")
                   metadata == IF bi = 0 THEN <<>> ELSE SubSeq(p3, bi + 1, Len(p3))
                   noMeta   == IF bi = 0 THEN p3 ELSE SubSeq(p3, 1, bi - 1)
                   pi       == IndexOf(noMeta, "-")
                   pre      == IF pi = 0 THEN <<>>
                               ELSE SubSeq(noMeta, pi + 1, Len(noMeta))
                   patch    == IF pi = 0 THEN noMeta ELSE SubSeq(noMeta, 1, pi - 1)
                   segments == <<parts[1], parts[2], patch>>
               IN IF \E i \in 1..3 : \/ ~containsOnly(segments[i], Numbers)
                                     \/ hasLeadingZeroes(segments[i])
                                     \/ segments[i] = <<>>
                  THEN NoVersion
                  ELSE IF pre # <<>> /\ ~validatePrerelease(pre) THEN NoVersion
                  ELSE IF metadata # <<>> /\ ~validateMetadata(metadata)
                  THEN NoVersion
                  ELSE [err |-> "nil",
                        major |-> ParseUint(segments[1]),
                        minor |-> ParseUint(segments[2]),
                        patch |-> ParseUint(segments[3]),
                        pre |-> pre, metadata |-> metadata]

compareSegment(v, o) == IF v < o THEN -1 ELSE IF v > o THEN 1 ELSE 0

\* strconv.ParseUint succeeds on the pre-release part
IsUint(s) == s # <<>> /\ containsOnly(s, Numbers)

\* one pre-release part against another: a missing part is lowest, numbers
\* compare by value and are lower than words, words compare as strings
comparePrePart(s, o) ==
  IF s = o THEN 0
  ELSE IF s = <<>> THEN -1
  ELSE IF o = <<>> THEN 1
  ELSE IF ~IsUint(o) /\ ~IsUint(s) THEN (IF StrLess(o, s) THEN 1 ELSE -1)
  ELSE IF ~IsUint(o) THEN -1
  ELSE IF ~IsUint(s) THEN 1
  ELSE IF ParseUint(s) > ParseUint(o) THEN 1 ELSE -1

RECURSIVE comparePrereleaseFrom(_, _, _)
comparePrereleaseFrom(sparts, oparts, i) ==
  IF i > Len(sparts) /\ i > Len(oparts) THEN 0
  ELSE LET stemp == IF i <= Len(sparts) THEN sparts[i] ELSE <<>>
           otemp == IF i <= Len(oparts) THEN oparts[i] ELSE <<>>
           d     == comparePrePart(stemp, otemp)
       IN IF d # 0 THEN d ELSE comparePrereleaseFrom(sparts, oparts, i + 1)

comparePrerelease(v, o) == comparePrereleaseFrom(SplitDots(v), SplitDots(o), 1)

\* Version.Compare: major, minor, patch, then the pre-release (a version
\* without one is the higher); the build metadata is not looked at
Compare(v, o) ==
  IF compareSegment(v.major, o.major) # 0 THEN compareSegment(v.major, o.major)
  ELSE IF compareSegment(v.minor, o.minor) # 0 THEN compareSegment(v.minor, o.minor)
  ELSE IF compareSegment(v.patch, o.patch) # 0 THEN compareSegment(v.patch, o.patch)
  ELSE IF v.pre = <<>> /\ o.pre = <<>> THEN 0
  ELSE IF v.pre = <<>> THEN 1
  ELSE IF o.pre = <<>> THEN -1
  ELSE comparePrerelease(v.pre, o.pre)

LessThan(v, o) == Compare(v, o) < 0

\* the comparison of the earlier util package (IsNewer): strictly greater
IsNewerOrEqualStrict(p, pp) == Compare(p, pp) > 0

\* Package.IsNewerOrEqual, on the versionSemVer of the two packages
IsNewerOrEqual(p, pp) == ~LessThan(p, pp)

(***************************************************************************)
(* The version comparator on its own: two version strings are parsed as    *)
(* Validate parses a manifest's version, and compared both ways.           *)
(***************************************************************************)
\* the version strings compared
VersionStrings ==
  {<<"1", ".", "0", ".", "0">>,
   <<"1", ".", "0", ".", "0", "+", "1">>,
   <<"1", ".", "0", ".", "0", "+", "2">>,
   <<"1", ".", "0", ".", "0", "-", "a">>,
   <<"1", ".", "0", ".", "0", "-", "a", ".", "1">>,
   <<"1", ".", "0", ".", "0", "-", "a", ".", "b">>,
   <<"1", ".", "0", ".", "0", "-", "1">>,
   <<"1", ".", "0", ".", "0", "-", "2">>,
   <<"1", ".", "0", ".", "0", "-", "1", "0">>,
   <<"1", ".", "0", ".", "0", "-", "a", "+", "1">>,
   <<"1", ".", "0", ".", "0", "-">>,
   <<"2", ".", "0", ".", "0">>,
   <<"1", ".", "2", ".", "0">>,
   <<"1", ".", "0", ".", "2">>,
   <<"1", ".", "0", ".", "1", "0">>,
   <<"0", ".", "9", ".", "0">>,
   <<"a", ".", "b", ".", "c">>,
   <<"1", ".", "0">>,
   <<"0", "1", ".", "0", ".", "0">>,
   <<"1", ".", "0", ".", "0", "-", "0", "1">>}

\* the artifact handler at rest, over an empty store
ArtifactIdle ==
  /\ pkgStat = [k \in StoreKeys |-> "absent"]
  /\ tree = EmptyTree
  /\ fsChanges = 0
  /\ connected = TRUE
  /\ pc = "idle"
  /\ req = NoReq
  /\ served = 0
  /\ status = 0
  /\ headers = {}
  /\ sink = <<>>
  /\ log = <<>>
  /\ gzipWriter = NoWriter
  /\ tarWriter = NoWriter
  /\ closed = <<>>
  /\ stack = <<>>
  /\ cur = Root
  /\ openFiles = 0
  /\ fsTouched = FALSE
  /\ lastRun = NoRun

InitCompare ==
  /\ ArtifactIdle
  /\ compat = NoCompat
  /\ QueryIdle
  /\ build = NoBuild
  /\ LoaderIdle
  /\ \E a \in VersionStrings, b \in VersionStrings :
       cmp = [NoCmp EXCEPT !.step = "new", !.a = a, !.b = b,
                           !.va = NoVersion, !.vb = NoVersion]

\* Validate: p.versionSemVer, err = semver.StrictNewVersion(p.Version), for
\* both packages; a package whose version does not parse is not built
ParseVersions ==
  /\ cmp.step = "new"
  /\ LET va == StrictNewVersion(cmp.a)
         vb == StrictNewVersion(cmp.b)
     IN cmp' = [cmp EXCEPT !.va = va, !.vb = vb,
                           !.step = IF va.err = "nil" /\ vb.err = "nil"
                                    THEN "parsed" ELSE "invalid"]
  /\ UNCHANGED <<artifactVars, compat, queryVars, build, loaderVars>>

\* IsNewerOrEqual asked of the two packages in both directions, and of the
\* first package against itself
CompareVersions ==
  /\ cmp.step = "parsed"
  /\ cmp' = [cmp EXCEPT !.ab = IsNewerOrEqual(cmp.va, cmp.vb),
                        !.ba = IsNewerOrEqual(cmp.vb, cmp.va),
                        !.aa = IsNewerOrEqual(cmp.va, cmp.va),
                        !.step = "compared"]
  /\ UNCHANGED <<artifactVars, compat, queryVars, build, loaderVars>>

NextCompare ==
  \/ ParseVersions
  \/ CompareVersions

SpecCompare == InitCompare /\ [][NextCompare]_vars

\* the text of a version without its build metadata and without an empty
\* pre-release: what is left is major.minor.patch[-pre]
VersionCore(s) ==
  LET bi     == IndexOf(s, "+")
      noMeta == IF bi = 0 THEN s ELSE SubSeq(s, 1, bi - 1)
  IN IF Len(noMeta) > 0 /\ noMeta[Len(noMeta)] = "-"
        /\ IndexOf(noMeta, "-") = Len(noMeta)
     THEN SubSeq(noMeta, 1, Len(noMeta) - 1)
     ELSE noMeta

\* C11 as stated: newerOrEqual(a, a) is true, and newerOrEqual(a, b) differs
\* from newerOrEqual(b, a) whenever the strings a and b differ, also when they
\* differ only in build metadata.
C11_Original ==
  cmp.step = "compared" =>
     /\ cmp.aa
     /\ cmp.a # cmp.b => cmp.ab # cmp.ba

\* C11, amended: newerOrEqual(a, a) is true; of newerOrEqual(a, b) and
\* newerOrEqual(b, a) at least one is true; both are true exactly when a and
\* b are the same version up to build metadata (and an empty pre-release), so
\* the two answers differ whenever a and b differ in major, minor, patch or
\* pre-release.
C11_TotalUpToBuildMetadata ==
  cmp.step = "compared" =>
     /\ cmp.aa
     /\ cmp.ab \/ cmp.ba
     /\ (cmp.ab /\ cmp.ba) <=> (VersionCore(cmp.a) = VersionCore(cmp.b))

C11_Witness ==
  /\ cmp.step = "compared"
  /\ cmp.a = <<"1", ".", "0", ".", "0", "+", "1">>
  /\ cmp.b = <<"1", ".", "0", ".", "0", "+", "2">>
  /\ cmp.ab
  /\ cmp.ba

(***************************************************************************)
(* Compatibility with a Kibana version: NewPackage parses the manifest's   *)
(* constraint with semver.NewConstraint, HasKibanaVersion checks a version *)
(* against it.  The constraints of the model are one operator, ~ or ^,     *)
(* followed by up to three dot-separated segments, each a number or x.     *)
(***************************************************************************)
isX(s) == s = <<"x">>

\* the result of a failed parse: a nil *Constraints and an error
NoConstraint ==
  [err |-> "improper constraint", op |-> "", con |-> NoVersion,
   minorDirty |-> FALSE, patchDirty |-> FALSE]

\* a segment the constraint syntax admits
ConstraintSegmentOk(s) == isX(s) \/ (s # <<>> /\ containsOnly(s, Numbers))

\* semver.NewConstraint(c) for a single comparison: the operator, the version
\* with 0 in place of every segment from the first wildcard or missing segment
\* on, and which segments were wildcards
parseConstraint(c) ==
  IF Len(c) < 2 \/ c[1] \notin {"~", "^"} THEN NoConstraint
  ELSE LET m == SplitDots(SubSeq(c, 2, Len(c)))
           n == Len(m)
       IN IF n > 3 \/ \E i \in 1..n : ~ConstraintSegmentOk(m[i]) THEN NoConstraint
          ELSE LET majorDirty == isX(m[1])
                   minorDirty == ~majorDirty /\ (n < 2 \/ isX(m[2]))
                   patchDirty == ~majorDirty /\ ~minorDirty /\ (n < 3 \/ isX(m[3]))
                   major == IF majorDirty THEN 0 ELSE ParseUint(m[1])
                   minor == IF majorDirty \/ minorDirty THEN 0 ELSE ParseUint(m[2])
                   patch == IF majorDirty \/ minorDirty \/ patchDirty THEN 0
                            ELSE ParseUint(m[3])
               IN [err |-> "nil", op |-> c[1],
                   con |-> [err |-> "nil", major |-> major, minor |-> minor,
                            patch |-> patch, pre |-> <<>>, metadata |-> <<>>],
                   minorDirty |-> minorDirty, patchDirty |-> patchDirty]

\* ~: not lower than the constraint's version, same major, same minor unless
\* the minor was a wildcard; a pre-release is not admitted
constraintTilde(v, c) ==
  IF v.pre # <<>> /\ c.con.pre = <<>> THEN FALSE
  ELSE IF LessThan(v, c.con) THEN FALSE
  ELSE IF /\ c.con.major = 0 /\ c.con.minor = 0 /\ c.con.patch = 0
          /\ ~c.minorDirty /\ ~c.patchDirty THEN TRUE
  ELSE IF v.major # c.con.major THEN FALSE
  ELSE IF v.minor # c.con.minor /\ ~c.minorDirty THEN FALSE
  ELSE TRUE

\* ^: not lower than the constraint's version and equal in its leftmost
\* non-zero segment; a pre-release is not admitted
constraintCaret(v, c) ==
  IF v.pre # <<>> /\ c.con.pre = <<>> THEN FALSE
  ELSE IF LessThan(v, c.con) THEN FALSE
  ELSE IF c.con.major > 0 \/ c.minorDirty THEN v.major = c.con.major
  ELSE IF v.major > 0 THEN FALSE
  ELSE IF c.con.minor > 0 \/ c.patchDirty THEN v.minor = c.con.minor
  ELSE c.con.patch = v.patch

\* Constraints.Check(v) on a parsed constraint
Check(c, v) == IF c.op = "~" THEN constraintTilde(v, c) ELSE constraintCaret(v, c)

\* A pointer is a sequence: empty when nil, else holding what it points to.
Nil == <<>>

\* the failed result of NewPackage: a nil *Package and an error
NoPackage == [err |-> "error", Conditions |-> Nil]

\* Validate, called while the manifest is unpacked: a legacy requirement
\* that is set must parse
ValidateRequirement(versions) ==
  versions = <<>> \/ parseConstraint(versions).err = "nil"

\* NewPackage, as far as compatibility goes: the conditions block wins when
\* its kibana.version is set, else a legacy requirement that is set is turned
\* into a conditions block, else p.Conditions stays what the manifest gave:
\* nil, or a block whose kibanaVersion was never parsed
NewPackage(conditions, versions) ==
  IF ~ValidateRequirement(versions) THEN NoPackage
  ELSE IF conditions.present /\ conditions.KibanaVersion # <<>>
  THEN LET c == parseConstraint(conditions.KibanaVersion)
       IN IF c.err # "nil" THEN NoPackage
          ELSE [err |-> "nil",
                Conditions |-> <<[KibanaVersion |-> conditions.KibanaVersion,
                                  kibanaVersion |-> <<c>>]>>]
  ELSE IF versions # <<>>
  THEN [err |-> "nil",
        Conditions |-> <<[KibanaVersion |-> versions,
                          kibanaVersion |-> <<parseConstraint(versions)>>]>>]
  ELSE IF conditions.present
  THEN [err |-> "nil",
        Conditions |-> <<[KibanaVersion |-> <<>>, kibanaVersion |-> Nil]>>]
  ELSE [err |-> "nil", Conditions |-> Nil]

\* what a call returned: "true" or "false", or "panic" when it did not return
Returned(b) == IF b THEN "true" ELSE "false"

\* Package.HasKibanaVersion: true without a conditions block or without a
\* version; else Check is called on p.Conditions.kibanaVersion, which is a nil
\* pointer when the block's kibana.version was empty: the call panics
HasKibanaVersion(p, version) ==
  IF p.Conditions = Nil \/ version = Nil THEN "true"
  ELSE IF p.Conditions[1].kibanaVersion = Nil THEN "panic"
  ELSE Returned(Check(p.Conditions[1].kibanaVersion[1], version[1]))

\* the constraint strings a manifest may carry, the last one malformed
ConstraintStrings ==
  {<<"~", "2", ".", "x", ".", "x">>,
   <<"^", "2", ".", "x", ".", "x">>,
   <<"^", "1", ".", "2", ".", "0">>,
   <<"~", "1", ".", "2", ".", "0">>,
   <<"~", "a">>}

\* the versions asked about
QueryVersionStrings ==
  {<<"1", ".", "9", ".", "2">>,
   <<"2", ".", "0", ".", "0">>,
   <<"2", ".", "2", ".", "1">>,
   <<"2", ".", "0", ".", "0", "-", "a">>}

\* the conditions block of a manifest: absent, or with a kibana.version that
\* may be empty
ManifestConditions ==
  {NoConditions} \cup
  {[present |-> TRUE, KibanaVersion |-> c] : c \in ConstraintStrings \cup {<<>>}}

\* the *semver.Version handed to HasKibanaVersion: nil, or a parsed version
QueryVersion(s) == IF s = <<>> THEN Nil ELSE <<StrictNewVersion(s)>>

InitCompat ==
  /\ ArtifactIdle
  /\ cmp = NoCmp
  /\ QueryIdle
  /\ build = NoBuild
  /\ LoaderIdle
  /\ \E conditions \in ManifestConditions,
        versions \in ConstraintStrings \cup {<<>>},
        version \in QueryVersionStrings \cup {<<>>} :
       compat = [NoCompat EXCEPT !.step = "new", !.conditions = conditions,
                                 !.versions = versions, !.query = version]

\* NewPackage(basePath) on the manifest
BuildPackage ==
  /\ compat.step = "new"
  /\ LET p == NewPackage(compat.conditions, compat.versions)
     IN compat' = [compat EXCEPT !.pkg = p,
                                 !.step = IF p.err = "nil" THEN "built" ELSE "failed"]
  /\ UNCHANGED <<artifactVars, cmp, queryVars, build, loaderVars>>

\* p.HasKibanaVersion(version) on the package built
AskKibanaVersion ==
  /\ compat.step = "built"
  /\ compat' = [compat EXCEPT !.answer = HasKibanaVersion(compat.pkg,
                                                          QueryVersion(compat.query)),
                              !.step = "asked"]
  /\ UNCHANGED <<artifactVars, cmp, queryVars, build, loaderVars>>

NextCompat ==
  \/ BuildPackage
  \/ AskKibanaVersion

SpecCompat == InitCompat /\ [][NextCompat]_vars

\* the manifest declares no constraint: no conditions block or one whose
\* kibana.version is empty, and an empty legacy requirement
DeclaresNoConstraint ==
  /\ compat.conditions.KibanaVersion = <<>>
  /\ compat.versions = <<>>

\* C14: for every package NewPackage builds from a manifest that declares no
\* constraint (no conditions block, a conditions block with an empty
\* kibana.version, or an empty legacy requirement) and every query version,
\* HasKibanaVersion returns true and does not fail.
C14_AbsentConstraintCompatible ==
  (compat.step = "asked" /\ DeclaresNoConstraint) => compat.answer = "true"

\* the failing case is reached: a conditions block with an empty
\* kibana.version, asked about version 2.0.0
C14_PanicReached ==
  /\ compat.step = "asked"
  /\ compat.conditions = [present |-> TRUE, KibanaVersion |-> <<>>]
  /\ compat.versions = <<>>
  /\ compat.query = <<"2", ".", "0", ".", "0">>
  /\ compat.answer = "panic"

(***************************************************************************)
(* The index and the query endpoints /search and /categories.  The two     *)
(* handlers (searchHandler, categoriesHandler) are exercised by            *)
(* TestEndpoints but are not among the sources at hand: they are modelled  *)
(* from sections 4.3 and 4.4 of the specification, on the package methods  *)
(* HasCategory, HasKibanaVersion and IsNewerOrEqual of util/package.go.    *)
(***************************************************************************)
\* largest number of package versions in the index
MaxIndexSize == 2

ExampleName == <<"e", "x", "a", "m", "p", "l", "e">>
OtherName   == <<"o", "t", "h", "e", "r">>

\* the category keys and their display titles
CategoryTitles ==
  [c \in {"logs", "metrics", "security"} |->
     CASE c = "logs" -> <<"L", "o", "g", "s">>
       [] c = "metrics" -> <<"M", "e", "t", "r", "i", "c", "s">>
       [] c = "security" -> <<"S", "e", "c", "u", "r", "i", "t", "y">>]

\* the manifests a store may hold: valid ones, no two of a name with versions
\* of the same precedence
Manifests ==
  {[Name |-> ExampleName, Version |-> <<"1", ".", "0", ".", "0">>,
    Categories |-> {"logs"}, Release |-> "ga", Internal |-> FALSE,
    conditions |-> NoConditions,
    versions |-> <<>>],
   [Name |-> ExampleName, Version |-> <<"2", ".", "0", ".", "0">>,
    Categories |-> {"metrics"}, Release |-> "ga", Internal |-> FALSE,
    conditions |-> [present |-> TRUE, KibanaVersion |-> <<"^", "2", ".", "x", ".", "x">>],
    versions |-> <<>>],
   [Name |-> ExampleName, Version |-> <<"9", ".", "0", ".", "0">>,
    Categories |-> {"logs", "security"}, Release |-> "experimental", Internal |-> FALSE,
    conditions |-> NoConditions,
    versions |-> <<>>],
   [Name |-> ExampleName, Version |-> <<"1", ".", "0", ".", "2">>,
    Categories |-> {"logs"}, Release |-> "beta", Internal |-> FALSE,
    conditions |-> NoConditions,
    versions |-> <<"~", "1", ".", "2", ".", "0">>],
   [Name |-> OtherName, Version |-> <<"1", ".", "0", ".", "0">>,
    Categories |-> {"logs", "metrics"}, Release |-> "ga", Internal |-> FALSE,
    conditions |-> [present |-> TRUE, KibanaVersion |-> <<>>],
    versions |-> <<>>],
   [Name |-> OtherName, Version |-> <<"1", ".", "2", ".", "0">>,
    Categories |-> {"security"}, Release |-> "ga", Internal |-> TRUE,
    conditions |-> NoConditions,
    versions |-> <<"~", "1", ".", "2", ".", "0">>],
   [Name |-> OtherName, Version |-> <<"0", ".", "9", ".", "0">>,
    Categories |-> {"metrics"}, Release |-> "ga", Internal |-> FALSE,
    conditions |-> NoConditions,
    versions |-> <<>>]}

\* the package NewPackage builds from a manifest
PackageOf(m) ==
  [Name |-> m.Name, Version |-> m.Version,
   versionSemVer |-> StrictNewVersion(m.Version),
   Categories |-> m.Categories, Release |-> m.Release, Internal |-> m.Internal,
   Conditions |-> NewPackage(m.conditions, m.versions).Conditions]

\* the indexes built from up to MaxIndexSize manifests
Indexes ==
  {{PackageOf(m) : m \in ms} :
     ms \in {x \in SUBSET Manifests : Cardinality(x) <= MaxIndexSize}}

\* the query strings a client may send
Queries ==
  [sent : {TRUE},
   package : {<<>>, ExampleName},
   category : {"", "logs", "metrics"},
   kibana : {<<>>, <<"1", ".", "9", ".", "2">>, <<"2", ".", "2", ".", "1">>, <<"a", ".", "b", ".", "c">>},
   experimental : {"", "true", "false", "foo"},
   internal : {"", "true", "bar"},
   all : BOOLEAN]

\* Package.HasCategory
HasCategory(p, category) == \E c \in p.Categories : c = category

\* a tri-state parameter: absent or false, true, or not a boolean
parseBoolParam(v) ==
  IF v \in {"", "false"} THEN [ok |-> TRUE, value |-> FALSE]
  ELSE IF v = "true" THEN [ok |-> TRUE, value |-> TRUE]
  ELSE [ok |-> FALSE, value |-> FALSE]

\* the parameters both endpoints validate, in one order: kibana.version,
\* internal, experimental; err is the InvalidParameter message, "" when valid
parseFilter(q) ==
  LET version      == IF q.kibana = <<>> THEN Nil ELSE <<StrictNewVersion(q.kibana)>>
      internal     == parseBoolParam(q.internal)
      experimental == parseBoolParam(q.experimental)
      err          == IF version # Nil /\ version[1].err # "nil"
                      THEN "invalid 'kibana.version' query param"
                      ELSE IF ~internal.ok THEN "invalid 'internal' query param"
                      ELSE IF ~experimental.ok
                      THEN "invalid 'experimental' query param"
                      ELSE ""
  IN [err |-> err, kibanaVersion |-> version, internal |-> internal.value,
      experimental |-> experimental.value]

\* release stages shown only when experimental=true
ExperimentalStages == {"experimental", "beta"}

\* the gates on the internal flag and on the release stage
Visible(p, f) ==
  /\ p.Internal => f.internal
  /\ p.Release \in ExperimentalStages => f.experimental

\* the InvalidParameter response
invalidParameter(msg) == [status |-> 400, body |-> msg, result |-> <<>>]

\* the handler panicked before it wrote anything: the server closes the
\* connection, no status line is sent
Panicked == [status |-> 0, body |-> "", result |-> <<>>]

\* of every name, the version no other version of that name is newer than
newestPerName(S) ==
  {p \in S : \A pp \in S :
     pp.Name = p.Name => IsNewerOrEqual(p.versionSemVer, pp.versionSemVer)}

\* by name, then by version ascending
PackageBefore(p, pp) ==
  \/ StrLess(p.Name, pp.Name)
  \/ p.Name = pp.Name /\ LessThan(p.versionSemVer, pp.versionSemVer)

RECURSIVE sortPackages(_)
sortPackages(S) ==
  IF S = {} THEN <<>>
  ELSE LET first == CHOOSE p \in S : \A pp \in S \ {p} : PackageBefore(p, pp)
       IN <<[name |-> first.Name, version |-> first.Version]>>
          \o sortPackages(S \ {first})

\* the packages that pass the gates, the category filter and the name filter
searchCandidates(ix, q, f) ==
  {p \in ix : /\ Visible(p, f)
              /\ (q.category = "" \/ HasCategory(p, q.category))
              /\ (q.package = <<>> \/ p.Name = q.package)}

\* HasKibanaVersion panics for one of the packages asked
kibanaPanics(S, f) ==
  \E p \in S : HasKibanaVersion(p, f.kibanaVersion) = "panic"

\* the packages compatible with the version asked for
kibanaMatching(S, f) ==
  {p \in S : HasKibanaVersion(p, f.kibanaVersion) = "true"}

searchResult(ix, q, f) ==
  IF f.err # "" THEN invalidParameter(f.err)
  ELSE IF kibanaPanics(searchCandidates(ix, q, f), f) THEN Panicked
  ELSE [status |-> 200, body |-> "",
        result |-> sortPackages(
                     IF q.all THEN kibanaMatching(searchCandidates(ix, q, f), f)
                     ELSE newestPerName(kibanaMatching(searchCandidates(ix, q, f), f)))]

\* /search: the packages that pass every filter, of each name only the newest
\* unless all=true, sorted by name and version
searchHandler(ix, q) == searchResult(ix, q, parseFilter(q))

\* the names of the packages of S that hold category c
categoryHolders(S, c) == {p.Name : p \in {pp \in S : HasCategory(pp, c)}}

\* the categories held in S with their counts, by title
RECURSIVE sortCategories(_, _)
sortCategories(keys, S) ==
  IF keys = {} THEN <<>>
  ELSE LET first == CHOOSE c \in keys : \A cc \in keys \ {c} :
                                          StrLess(CategoryTitles[c], CategoryTitles[cc])
       IN <<[id |-> first, title |-> CategoryTitles[first],
             count |-> Cardinality(categoryHolders(S, first))]>>
          \o sortCategories(keys \ {first}, S)

\* the parameter check of /categories, were it written apart from /search's:
\* a value that is not a boolean counts as false
parseFilterLenient(q) ==
  [parseFilter([q EXCEPT !.internal = IF @ \in {"", "true", "false"} THEN @ ELSE "",
                         !.experimental = IF @ \in {"", "true", "false"} THEN @ ELSE ""])
     EXCEPT !.err = IF @ = "invalid 'kibana.version' query param" THEN @ ELSE ""]

\* the filter of /categories: the same validation as /search
categoriesFilter(q) == parseFilter(q)

\* every category key some package of S holds
categoryKeys(S) == {c \in DOMAIN CategoryTitles : categoryHolders(S, c) # {}}

\* the aggregation with every version counted, none collapsed away
countCategoriesAllVersions(S) == sortCategories(categoryKeys(S), S)

\* the categories of each name's newest version in S, with the number of names
countCategories(S) == sortCategories(categoryKeys(newestPerName(S)), newestPerName(S))

categoriesResult(ix, f) ==
  IF f.err # "" THEN invalidParameter(f.err)
  ELSE IF kibanaPanics({p \in ix : Visible(p, f)}, f) THEN Panicked
  ELSE [status |-> 200, body |-> "",
        result |-> countCategories(kibanaMatching({p \in ix : Visible(p, f)}, f))]

\* /categories: for every category held by a newest matching version, the
\* number of names whose newest matching version holds it, sorted by title
categoriesHandler(ix, q) == categoriesResult(ix, categoriesFilter(q))

InitQuery ==
  /\ ArtifactIdle
  /\ cmp = NoCmp
  /\ compat = NoCompat
  /\ index \in Indexes
  /\ query = NoQuery
  /\ searchResp = NoResponse
  /\ categoriesResp = NoResponse
  /\ pkgIndex = NoPkgIndex
  /\ build = NoBuild
  /\ LoaderIdle

\* a client chooses the parameters it sends to both endpoints
Ask(q) ==
  /\ ~query.sent
  /\ query' = q
  /\ UNCHANGED <<artifactVars, cmp, compat, build, loaderVars, index, searchResp, categoriesResp, pkgIndex>>

\* GET /search with the parameters
Search ==
  /\ query.sent
  /\ searchResp = NoResponse
  /\ searchResp' = searchHandler(index, query)
  /\ UNCHANGED <<artifactVars, cmp, compat, build, loaderVars, index, query, categoriesResp, pkgIndex>>

\* GET /categories with the parameters (package, category and all are not
\* parameters of this endpoint)
Categories ==
  /\ query.sent
  /\ categoriesResp = NoResponse
  /\ categoriesResp' = categoriesHandler(index, query)
  /\ UNCHANGED <<artifactVars, cmp, compat, build, loaderVars, index, query, searchResp, pkgIndex>>

NextQuery ==
  \/ \E q \in Queries : Ask(q)
  \/ Search
  \/ Categories

SpecQuery == InitQuery /\ [][NextQuery]_vars

(***************************************************************************)
(* What sections 4.3 and 4.4 ask of the two endpoints, read off the query  *)
(* and the index and not off the handlers.                                 *)
(***************************************************************************)
\* the parameters are valid: both endpoints are to answer 200
QueryValid ==
  /\ query.sent
  /\ query.kibana # <<>> => StrictNewVersion(query.kibana).err = "nil"
  /\ query.internal \in {"", "true", "false"}
  /\ query.experimental \in {"", "true", "false"}

\* the constraint a package declares, Nil when it declares none
DeclaredConstraint(p) ==
  IF p.Conditions = Nil THEN Nil ELSE p.Conditions[1].kibanaVersion

\* the compatibility filter: no version asked for, no constraint declared, or
\* the constraint satisfied by the version asked for
Compatible(p) ==
  \/ query.kibana = <<>>
  \/ DeclaredConstraint(p) = Nil
  \/ Check(DeclaredConstraint(p)[1], StrictNewVersion(query.kibana))

\* the gates on the internal flag and the release stage
GatesPass(p) ==
  /\ p.Internal => query.internal = "true"
  /\ p.Release \in {"experimental", "beta"} => query.experimental = "true"

\* the filters of /search other than the compatibility filter
OtherFiltersPass(p) ==
  /\ GatesPass(p)
  /\ query.category = "" \/ query.category \in p.Categories
  /\ query.package = <<>> \/ p.Name = query.package

\* the versions that pass every filter of /search
Passing == {p \in index : OtherFiltersPass(p) /\ Compatible(p)}

\* the entries /search returned
SearchResultSet == {searchResp.result[i] : i \in DOMAIN searchResp.result}

\* the entry /search writes for a package
Entry(p) == [name |-> p.Name, version |-> p.Version]

\* C12: with all=false and valid parameters, /search returns no two versions
\* of one name, and of every name with a version that passes every filter it
\* returns that name's greatest passing version by semantic-version order (an
\* older version when the newest fails a filter) and nothing else.
C12_NewestPassingVersion ==
  (QueryValid /\ ~query.all /\ searchResp # NoResponse) =>
    /\ \A i, j \in DOMAIN searchResp.result :
         searchResp.result[i].name = searchResp.result[j].name => i = j
    /\ SearchResultSet \subseteq {Entry(p) : p \in Passing}
    /\ \A p \in Passing :
         \E r \in Passing :
           /\ r.Name = p.Name
           /\ Entry(r) \in SearchResultSet
           /\ \A pp \in Passing :
                pp.Name = r.Name => Compare(r.versionSemVer, pp.versionSemVer) >= 0

\* the failing case of C12: the version 0.9.0 of "other" passes every filter
\* for Kibana 2.2.1, the handler met the package with the empty conditions
\* block on its way and returned nothing
C12_PanicReached ==
  /\ QueryValid /\ ~query.all
  /\ query.kibana = <<"2", ".", "2", ".", "1">>
  /\ searchResp = Panicked
  /\ \E p \in Passing : p.Name = OtherName /\ p.Version = <<"0", ".", "9", ".", "0">>

\* C13: with a kibana.version value supplied, a package that passes the other
\* filters is included exactly when its declared constraint is satisfied by
\* that version or it declares no constraint; with no value supplied every
\* such package is included (all=true, so that no version is collapsed away).
C13_CompatibilityFilter ==
  (QueryValid /\ query.all /\ searchResp # NoResponse) =>
    \A p \in index :
      OtherFiltersPass(p) => (Entry(p) \in SearchResultSet <=> Compatible(p))

\* the failing case of C13: a package that declares no constraint (a
\* conditions block with an empty kibana.version) is not included
C13_PanicReached ==
  /\ QueryValid /\ query.all
  /\ query.kibana # <<>>
  /\ searchResp = Panicked
  /\ \E p \in index :
       /\ OtherFiltersPass(p)
       /\ p.Conditions # Nil /\ DeclaredConstraint(p) = Nil
       /\ Entry(p) \notin SearchResultSet

\* experimental or internal carries a value that is not absent, false or true
InvalidGate ==
  /\ query.sent
  /\ \/ query.internal \notin {"", "true", "false"}
     \/ query.experimental \notin {"", "true", "false"}

\* C15: when experimental or internal is neither absent, false nor true,
\* /search and /categories both answer 400 with an InvalidParameter message
\* and no result set, and the two answers are one and the same.
C15_InvalidGateSameError ==
  InvalidGate =>
    /\ searchResp # NoResponse =>
         searchResp.status = 400 /\ searchResp.body # "" /\ searchResp.result = <<>>
    /\ categoriesResp # NoResponse =>
         /\ categoriesResp.status = 400
         /\ categoriesResp.body # ""
         /\ categoriesResp.result = <<>>
    /\ (searchResp # NoResponse /\ categoriesResp # NoResponse) =>
         searchResp.body = categoriesResp.body

\* experimental=foo was sent to both endpoints and both have answered 400 with
\* the message about the experimental parameter
C15_Witness ==
  /\ query.sent
  /\ query.experimental = "foo"
  /\ query.internal = ""
  /\ query.kibana = <<>>
  /\ searchResp.status = 400
  /\ categoriesResp.status = 400
  /\ categoriesResp.body = "invalid 'experimental' query param"
  /\ searchResp.body = categoriesResp.body

\* the sum of the counts of a /categories result
RECURSIVE SumCounts(_)
SumCounts(result) ==
  IF result = <<>> THEN 0 ELSE Head(result).count + SumCounts(Tail(result))

\* the distinct package names /search returned
VisibleNames == {r.name : r \in SearchResultSet}

\* the package of the index an entry of /search stands for
PackageOfEntry(r) == CHOOSE p \in index : Entry(p) = r

\* the number of (package, category) pairs among the entries /search returned
RECURSIVE CategoryPairs(_)
CategoryPairs(result) ==
  IF result = <<>> THEN 0
  ELSE Cardinality(PackageOfEntry(Head(result)).Categories)
       + CategoryPairs(Tail(result))

\* both endpoints have answered one filter set: the parameters /categories
\* does not take are absent
SameFilterSet ==
  /\ query.sent
  /\ query.package = <<>>
  /\ query.category = ""
  /\ searchResp # NoResponse
  /\ categoriesResp # NoResponse

\* C16 as stated: the sum of the category counts never exceeds the number of
\* distinct package names /search shows under the same filter set.
C16_SumWithinNames ==
  SameFilterSet => SumCounts(categoriesResp.result) <= Cardinality(VisibleNames)

\* C16, amended: under one filter set no single category count exceeds the
\* number of distinct package names /search shows, and the sum of the counts
\* never exceeds the number of (name, category) pairs of the versions /search
\* shows with all=false: a name is counted once under each category its
\* newest matching version holds.
C16_CountsWithinNames ==
  SameFilterSet =>
    /\ \A i \in DOMAIN categoriesResp.result :
         categoriesResp.result[i].count <= Cardinality(VisibleNames)
    /\ ~query.all =>
         SumCounts(categoriesResp.result) <= CategoryPairs(searchResp.result)

\* two names are shown, one of them under two categories, and the counts sum
\* to more than two
C16_Witness ==
  /\ SameFilterSet
  /\ ~query.all
  /\ searchResp.status = 200
  /\ categoriesResp.status = 200
  /\ Cardinality(VisibleNames) = 2
  /\ SumCounts(categoriesResp.result) = 3
  /\ CategoryPairs(searchResp.result) = 3

\* the versions that pass the gating of /categories, and of each name the
\* greatest of them
Matching == {p \in index : GatesPass(p) /\ Compatible(p)}
NewestMatching ==
  {p \in Matching : \A pp \in Matching :
     pp.Name = p.Name => Compare(p.versionSemVer, pp.versionSemVer) >= 0}

\* the names whose newest matching version holds category c
NamesHolding(c) == {p.Name : p \in {pp \in NewestMatching : c \in pp.Categories}}

\* C17: with valid parameters /categories reports exactly the category keys
\* held by the newest matching version of at least one name, each with the
\* number of distinct names whose newest matching version holds it; matching
\* is the experimental, internal and kibana.version gating of /search, and a
\* category held only by an older version of a name is not counted.
C17_CountsPerCategory ==
  (QueryValid /\ categoriesResp # NoResponse) =>
    /\ {categoriesResp.result[i].id : i \in DOMAIN categoriesResp.result}
         = {c \in DOMAIN CategoryTitles : NamesHolding(c) # {}}
    /\ \A i \in DOMAIN categoriesResp.result :
         categoriesResp.result[i].count
           = Cardinality(NamesHolding(categoriesResp.result[i].id))
    /\ \A i, j \in DOMAIN categoriesResp.result :
         categoriesResp.result[i].id = categoriesResp.result[j].id => i = j

\* the failing case of C17: a package with the empty conditions block is
\* among the matching ones, a version is asked for, and no category is
\* reported although some are held
C17_PanicReached ==
  /\ QueryValid
  /\ query.kibana # <<>>
  /\ categoriesResp = Panicked
  /\ \E c \in DOMAIN CategoryTitles : NamesHolding(c) # {}
  /\ \E p \in Matching : p.Conditions # Nil /\ DeclaredConstraint(p) = Nil

(***************************************************************************)
(* The package index endpoint /package/{name}/{version}/.  Its handler     *)
(* (packageIndexHandler) is exercised by TestPackageIndex but is not among *)
(* the sources at hand: it is modelled from sections 4.5, 6 and 7 of the   *)
(* specification, with the version check of the artifact handler.          *)
(***************************************************************************)
MissingName == <<"m", "i", "s", "s", "i", "n", "g">>

\* the names and versions the tests and the boundary cases ask for
RequestedNames == {ExampleName, OtherName, MissingName}
RequestedVersions ==
  {<<"1", ".", "0", ".", "0">>, <<"2", ".", "0", ".", "0">>,
   <<"9", "9", "9", ".", "0", ".", "0">>, <<"0", ".", "9", ".", "0">>,
   <<"a", ".", "b", ".", "c">>, <<"1", ".", "0">>}

\* the record of the index with exactly this name and version
packageRecords(ix, name, version) ==
  {p \in ix : p.Name = name /\ p.Version = version}

\* the existence check made before the version is looked at
packageIndexHandlerLookupFirst(ix, name, version) ==
  IF packageRecords(ix, name, version) = {}
  THEN [status |-> 404, body |-> "not found", result |-> <<>>]
  ELSE IF ~SemverParseOk(version)
  THEN [status |-> 400, body |-> "invalid package version", result |-> <<>>]
  ELSE [status |-> 200, body |-> "",
        result |-> sortPackages(packageRecords(ix, name, version))]

\* the version must parse, or InvalidVersion (400); then the record must
\* exist, or PackageNotFound (404); then the record is written
packageIndexHandler(ix, name, version) ==
  IF ~SemverParseOk(version)
  THEN [status |-> 400, body |-> "invalid package version", result |-> <<>>]
  ELSE IF packageRecords(ix, name, version) = {}
  THEN [status |-> 404, body |-> "not found", result |-> <<>>]
  ELSE [status |-> 200, body |-> "",
        result |-> sortPackages(packageRecords(ix, name, version))]

InitPackageIndex ==
  /\ ArtifactIdle
  /\ cmp = NoCmp
  /\ compat = NoCompat
  /\ index \in Indexes
  /\ query = NoQuery
  /\ searchResp = NoResponse
  /\ categoriesResp = NoResponse
  /\ pkgIndex = NoPkgIndex
  /\ build = NoBuild
  /\ LoaderIdle

\* GET /package/{name}/{version}/ arrives
RequestPackageIndex(name, version) ==
  /\ pkgIndex.step = "idle"
  /\ pkgIndex' = [pkgIndex EXCEPT !.step = "requested", !.name = name,
                                  !.version = version]
  /\ UNCHANGED <<artifactVars, cmp, compat, build, loaderVars, index, query, searchResp, categoriesResp>>

\* the handler answers
ServePackageIndex ==
  /\ pkgIndex.step = "requested"
  /\ pkgIndex' = [pkgIndex EXCEPT
        !.step = "served",
        !.resp = packageIndexHandler(index, pkgIndex.name, pkgIndex.version)]
  /\ UNCHANGED <<artifactVars, cmp, compat, build, loaderVars, index, query, searchResp, categoriesResp>>

NextPackageIndex ==
  \/ \E name \in RequestedNames, version \in RequestedVersions :
       RequestPackageIndex(name, version)
  \/ ServePackageIndex

SpecPackageIndex == InitPackageIndex /\ [][NextPackageIndex]_vars

\* the versions requested that are not semantic versions
MalformedVersions == {<<"a", ".", "b", ".", "c">>, <<"1", ".", "0">>}

\* the index holds some version of the name requested
NameExists == \E p \in index : p.Name = pkgIndex.name

\* the index holds the name at the version requested
VersionExists ==
  \E p \in index : p.Name = pkgIndex.name /\ p.Version = pkgIndex.version

\* C18: /package/{name}/{version}/ answers 404, not 400, to a well-formed
\* version that the index does not hold for the name, whether the name is
\* known or not, and 400, not 404, to a malformed version such as a.b.c,
\* whether the name is known or not.
C18_SyntaxBeforeExistence ==
  pkgIndex.step = "served" =>
    /\ pkgIndex.version \in MalformedVersions => pkgIndex.resp.status = 400
    /\ (pkgIndex.version \notin MalformedVersions /\ ~VersionExists) =>
         pkgIndex.resp.status = 404
    /\ (pkgIndex.version \notin MalformedVersions /\ VersionExists) =>
         pkgIndex.resp.status = 200

\* example exists at 2.0.0 only: 1.0.0 has been answered with 404
C18_Witness ==
  /\ pkgIndex.step = "served"
  /\ pkgIndex.name = ExampleName
  /\ pkgIndex.version = <<"1", ".", "0", ".", "0">>
  /\ NameExists /\ ~VersionExists
  /\ \E p \in index : p.Name = ExampleName /\ p.Version = <<"2", ".", "0", ".", "0">>
  /\ pkgIndex.resp.status = 404

(***************************************************************************)
(* The generator's BuildPackages: the source directory is walked for the   *)
(* directories holding a manifest.yml, and each of them is made a package  *)
(* (NewPackage), copied (CopyPackage) and built (buildPackage).            *)
(***************************************************************************)
\* largest number of package directories in the source directory
MaxPackages == 2

\* what is wrong with a package directory, each fault named after the call
\* that meets it
NewPackageFaults ==
  {"manifest_unreadable", "manifest_malformed", "invalid_range", "invalid_release"}
CopyPackageFaults == {"copy_failed"}
buildPackageFaults ==
  {"invalid", "datasets_unreadable", "asset_unreadable", "dataset_malformed",
   "saved_object_malformed"}
Faults ==
  {"none"} \cup NewPackageFaults \cup CopyPackageFaults \cup buildPackageFaults

\* an *os.PathError: not wrapped, its message holds the path of the file
PathError(op) == [nil |-> FALSE, wrapped |-> FALSE, path |-> TRUE, msg |-> op]

\* the error the failing call returns, as BuildPackages hands it on: only
\* buildPackage wraps, and only the error of Validate
FaultError(f) ==
  CASE f = "manifest_unreadable" -> PathError("open")
    [] f = "manifest_malformed" ->
         [nil |-> FALSE, wrapped |-> FALSE, path |-> FALSE, msg |-> "yaml"]
    [] f = "invalid_range" ->
         [nil |-> FALSE, wrapped |-> TRUE, path |-> FALSE,
          msg |-> "invalid Kibana versions range"]
    [] f = "invalid_release" ->
         [nil |-> FALSE, wrapped |-> FALSE, path |-> FALSE, msg |-> "invalid release"]
    [] f = "copy_failed" -> PathError("mkdir")
    [] f = "invalid" ->
         [nil |-> FALSE, wrapped |-> TRUE, path |-> TRUE,
          msg |-> "package validation failed"]
    [] f = "datasets_unreadable" -> PathError("stat")
    [] f = "asset_unreadable" -> PathError("stat")
    [] f = "dataset_malformed" ->
         [nil |-> FALSE, wrapped |-> TRUE, path |-> TRUE,
          msg |-> "error building dataset"]
    [] f = "saved_object_malformed" ->
         [nil |-> FALSE, wrapped |-> TRUE, path |-> FALSE,
          msg |-> "unmarshalling saved object failed"]
    [] OTHER -> NilError

\* the package directories of a source directory, in walk order
RECURSIVE SourceDirs(_)
SourceDirs(n) ==
  IF n = 0 THEN {<<>>}
  ELSE SourceDirs(n - 1)
       \cup {Append(d, f) : d \in {dd \in SourceDirs(n - 1) : Len(dd) = n - 1},
                            f \in Faults}

InitBuild ==
  /\ ArtifactIdle
  /\ cmp = NoCmp
  /\ compat = NoCompat
  /\ QueryIdle
  /\ LoaderIdle
  /\ \E walk \in {"ok", "unreadable"}, faults \in SourceDirs(MaxPackages) :
       build = [NoBuild EXCEPT !.step = "walk", !.walk = walk, !.faults = faults]

\* return err: BuildPackages ends with the error as it is
abort(b, err) == [b EXCEPT !.step = "done", !.err = err]

\* the loop goes on to the package at i, or ends with nil
nextPackage(b, i) ==
  IF i > Len(b.faults) THEN [b EXCEPT !.step = "done", !.i = i]
  ELSE [b EXCEPT !.step = "new", !.i = i]

\* filepath.Walk over sourceDir; an error of the walk is returned
WalkSource ==
  /\ build.step = "walk"
  /\ build' = IF build.walk = "unreadable"
              THEN abort(build, PathError("lstat"))
              ELSE nextPackage(build, 1)
  /\ UNCHANGED <<artifactVars, cmp, compat, queryVars, loaderVars>>

\* p, err := util.NewPackage(srcDir); if err != nil { return err }
BuildNewPackage ==
  /\ build.step = "new"
  /\ build' = IF build.faults[build.i] \in NewPackageFaults
              THEN abort(build, FaultError(build.faults[build.i]))
              ELSE [build EXCEPT !.step = "copy"]
  /\ UNCHANGED <<artifactVars, cmp, compat, queryVars, loaderVars>>

\* err := CopyPackage(srcDir, dstDir); if err != nil { return err }
CopyPackage ==
  /\ build.step = "copy"
  /\ build' = IF build.faults[build.i] \in CopyPackageFaults
              THEN abort(build, FaultError(build.faults[build.i]))
              ELSE [build EXCEPT !.step = "build"]
  /\ UNCHANGED <<artifactVars, cmp, compat, queryVars, loaderVars>>

\* err = buildPackage(packagesPath, *p); if err != nil { return err }
buildPackage ==
  /\ build.step = "build"
  /\ build' = IF build.faults[build.i] \in buildPackageFaults
              THEN abort(build, FaultError(build.faults[build.i]))
              ELSE nextPackage([build EXCEPT !.built = @ + 1], build.i + 1)
  /\ UNCHANGED <<artifactVars, cmp, compat, queryVars, loaderVars>>

NextBuild ==
  \/ WalkSource
  \/ BuildNewPackage
  \/ CopyPackage
  \/ buildPackage

SpecBuild == InitBuild /\ [][NextBuild]_vars

\* some step of the build fails
BuildFails ==
  \/ build.walk = "unreadable"
  \/ \E k \in DOMAIN build.faults : build.faults[k] # "none"

\* the packages ahead of the first one with a fault
BuiltBeforeFault ==
  IF build.walk = "unreadable" THEN 0
  ELSE Cardinality({k \in DOMAIN build.faults :
                      \A j \in 1..k : build.faults[j] = "none"})

\* C20: when any step fails for any one package (manifest, directory,
\* validation, assets, datasets), BuildPackages ends with a non-nil wrapped
\* error that names the offending path, no package after the failing one is
\* built, and a nil error is returned only when every package was built.
C20_FailFastWithPath ==
  build.step = "done" =>
    /\ BuildFails => /\ ~build.err.nil
                     /\ build.err.wrapped
                     /\ build.err.path
    /\ build.built = BuiltBeforeFault
    /\ build.err.nil => build.built = Len(build.faults)

\* the failing case: the second package's manifest names a release that is
\* not valid, and the build has ended with an error that names no path
C20_ErrorWithoutPath ==
  /\ build.step = "done"
  /\ build.faults = <<"none", "invalid_release">>
  /\ build.built = 1
  /\ ~build.err.nil
  /\ ~build.err.path

(***************************************************************************)
(* The archive streamer once more: file handles and the deferred closes.   *)
(***************************************************************************)
\* a write to w has failed: the compressor holds the error
SinkWriteFailed == gzipWriter.err = "io"

\* C27: at most one file is open at any point of the walk, and only while
\* its content is copied; none is open when the handler returns, whether the
\* copy succeeded, the open or the copy failed, or the client went away.
\* Once a write to w has failed the walk has stopped, and no further entry
\* (header or content) is written.
C27_HandlesReleasedWalkStops ==
  /\ [](/\ openFiles \in {0, 1}
        /\ openFiles = 1 => pc = "copy"
        /\ SinkWriteFailed => pc \in {"closeTar", "closeGz", "done"})
  /\ [][SinkWriteFailed => EntryItems(sink') = EntryItems(sink)]_vars

\* the client went away while a file's content was copied: the copy failed
\* with bytes still owed to the entry, and the handler has returned with no
\* file open
C27_Witness ==
  /\ pc = "done"
  /\ ~connected
  /\ SinkWriteFailed
  /\ tarWriter.remaining > 0
  /\ WalkErrorLogged
  /\ openFiles = 0

\* tarWriter.Close() returned an error
TarCloseFailed == "closing tar writer failed" \in Range(log)

\* C28: when tarWriter.Close() returns an error the error is logged and
\* gzipWriter.Close() is still called, after it: both writers are closed in
\* that order when the handler returns, and unless the write to w itself
\* fails the gzip footer is the last thing written.
C28_GzipClosedAfterTarError ==
  /\ [](TarCloseFailed =>
          /\ pc \in {"closeGz", "done"}
          /\ tarWriter.state = "closed"
          /\ pc = "done" =>
               /\ closed = <<"tar", "gzip">>
               /\ gzipWriter.state = "closed"
               /\ gzipWriter.err = "nil" =>
                    (Len(sink) > 0 /\ sink[Len(sink)] = GzipFooter))
  /\ [][(pc = "closeTar" /\ pc' # "closeTar") => pc' = "closeGz"]_vars

\* a file shrank after its header was written: the next header failed, the
\* tar writer's Close reported the bytes still owed, and the gzip footer was
\* written all the same
C28_Witness ==
  /\ pc = "done"
  /\ connected
  /\ TarCloseFailed
  /\ tarWriter.remaining > 0
  /\ closed = <<"tar", "gzip">>
  /\ Len(sink) > 0
  /\ sink[Len(sink)] = GzipFooter

(***************************************************************************)
(* The working-directory-based LoadAssets: it changes into the package     *)
(* directory, globs and stats relative names, and changes back in a        *)
(* deferred function that assigns the named result.  The working directory *)
(* is one per process, so two invocations share it.                        *)
(***************************************************************************)
Invocations == {1, 2}

\* the directory the process starts in, and the package path of each caller
OriginalDir == "/"
PackagePath(t) == IF t = 1 THEN "A" ELSE "B"

\* the files of each package directory
Files(dir) ==
  CASE dir = "A" -> {"a.json"}
    [] dir = "B" -> {"b.json"}
    [] OTHER -> {}

\* the call that fails for an invocation, if any: os.Chdir(packagePath),
\* os.Stat(a), or os.Chdir(oldDir) in the deferred function
LoadFaults == {"none", "chdir", "stat", "restore"}

InitLoad ==
  /\ ArtifactIdle
  /\ cmp = NoCmp
  /\ compat = NoCompat
  /\ QueryIdle
  /\ build = NoBuild
  /\ validate = NoValidate
  /\ datasets = NoDatasets
  /\ dataset = NoDataSet
  /\ \E fault \in [Invocations -> LoadFaults] :
       load = [cwd |-> OriginalDir,
               inv |-> [t \in Invocations |-> NoInvocation],
               fault |-> fault]

\* p.Assets = nil; oldDir, err := os.Getwd(); the deferred function is
\* registered
Getwd(t) ==
  /\ load.inv[t].pc = "idle"
  /\ load' = [load EXCEPT !.inv[t].pc = "chdir", !.inv[t].oldDir = load.cwd,
                          !.inv[t].Assets = {}]
  /\ UNCHANGED <<artifactVars, cmp, compat, queryVars, build, validate, datasets, dataset>>

\* err = os.Chdir(packagePath); if err != nil { return err }
ChdirPackage(t) ==
  /\ load.inv[t].pc = "chdir"
  /\ load' = IF load.fault[t] = "chdir"
             THEN [load EXCEPT !.inv[t].pc = "deferred", !.inv[t].ret = "chdir"]
             ELSE [load EXCEPT !.inv[t].pc = "glob", !.cwd = PackagePath(t)]
  /\ UNCHANGED <<artifactVars, cmp, compat, queryVars, build, validate, datasets, dataset>>

\* filepath.Glob("*") and deeper: the names found in the working directory
GlobAssets(t) ==
  /\ load.inv[t].pc = "glob"
  /\ load' = [load EXCEPT !.inv[t].pc = "stat", !.inv[t].found = Files(load.cwd)]
  /\ UNCHANGED <<artifactVars, cmp, compat, queryVars, build, validate, datasets, dataset>>

\* for every name found: os.Stat(a), relative to the working directory;
\* if err != nil { return err }; else the name is appended to p.Assets under
\* "/package/" + packagePath; return nil
StatAssets(t) ==
  /\ load.inv[t].pc = "stat"
  /\ load' = IF \/ load.fault[t] = "stat" /\ load.inv[t].found # {}
                \/ \E a \in load.inv[t].found : a \notin Files(load.cwd)
             THEN [load EXCEPT !.inv[t].pc = "deferred", !.inv[t].ret = "stat"]
             ELSE [load EXCEPT !.inv[t].pc = "deferred",
                               !.inv[t].Assets =
                                  {<<PackagePath(t), a>> : a \in load.inv[t].found}]
  /\ UNCHANGED <<artifactVars, cmp, compat, queryVars, build, validate, datasets, dataset>>

\* the deferred function: err = os.Chdir(oldDir) assigns the named result,
\* whatever the return statement had set
RestoreDir(t) ==
  /\ load.inv[t].pc = "deferred"
  /\ load' = IF load.fault[t] = "restore"
             THEN [load EXCEPT !.inv[t].pc = "returned", !.inv[t].err = "chdir"]
             ELSE [load EXCEPT !.inv[t].pc = "returned", !.inv[t].err = "nil",
                               !.cwd = load.inv[t].oldDir]
  /\ UNCHANGED <<artifactVars, cmp, compat, queryVars, build, validate, datasets, dataset>>

NextLoad ==
  \E t \in Invocations :
    \/ Getwd(t)
    \/ ChdirPackage(t)
    \/ GlobAssets(t)
    \/ StatAssets(t)
    \/ RestoreDir(t)

SpecLoad == InitLoad /\ [][NextLoad]_vars

\* both invocations have returned and no call failed by itself
BothReturned ==
  /\ load.inv # <<>>
  /\ \A t \in Invocations :
       load.inv[t].pc = "returned" /\ load.fault[t] = "none"

\* C29: when two invocations of LoadAssets for different package paths run
\* in one process, each discovers the assets of its own package directory
\* and no others, and after both have returned the working directory is
\* the one before either started.
C29_ConcurrentLoadsIsolated ==
  BothReturned =>
    /\ load.cwd = OriginalDir
    /\ \A t \in Invocations :
         /\ load.inv[t].ret = "nil"
         /\ load.inv[t].Assets =
              {<<PackagePath(t), a>> : a \in Files(PackagePath(t))}

\* the failing case of C29: the second invocation recorded the first one's
\* package directory as the directory to go back to, and the process is
\* left there after both have returned
C29_LeftInPackageDir ==
  /\ BothReturned
  /\ load.inv[2].oldDir = PackagePath(1)
  /\ load.cwd = PackagePath(1)

\* an invocation runs alone: the other one has not been called
Alone(t) ==
  /\ load.inv # <<>>
  /\ \A u \in Invocations \ {t} : load.inv[u].pc = "idle"

\* C30: LoadAssets returns a non-nil error whenever os.Chdir(packagePath),
\* a glob or the os.Stat of an asset failed (the deferred restoration does
\* not replace it with nil), and whenever it returns after recording the
\* original directory the working directory is that directory again.
C30_ErrorsReturnedDirRestored ==
  \A t \in Invocations :
    (Alone(t) /\ load.inv[t].pc = "returned") =>
      /\ load.inv[t].ret # "nil" => load.inv[t].err # "nil"
      /\ load.fault[t] # "restore" => load.cwd = load.inv[t].oldDir

\* the failing case of C30: os.Chdir(packagePath) failed, the invocation
\* ran alone, and the caller got nil
C30_ErrorSwallowed ==
  /\ Alone(1)
  /\ load.inv[1].pc = "returned"
  /\ load.inv[1].ret = "chdir"
  /\ load.inv[1].err = "nil"

(***************************************************************************)
(* Package.Validate, called while the manifest is unpacked into a package  *)
(* whose BasePath is already set.  Its last check before the datasets      *)
(* compares the manifest's version with the name of the directory the      *)
(* package content is rooted in.                                           *)
(***************************************************************************)
\* the dot-separated parts of a pre-release or of build metadata, as the
\* version pattern wants them: none is empty, all made of letters, digits, "-"
identifierParts(s) ==
  \A i \in 1..Len(SplitDots(s)) :
     SplitDots(s)[i] # <<>> /\ containsOnly(SplitDots(s)[i], AlphaNum)

\* the version assembled from what the version pattern matched: one to three
\* numeric segments (a missing one counts 0), a pre-release, build metadata
looseVersion(core, pre, metadata) ==
  LET m == SplitDots(core)
  IN IF Len(m) > 3 \/ \E i \in 1..Len(m) : ~IsUint(m[i]) THEN NoVersion
     ELSE IF pre # <<>> /\ ~validatePrerelease(pre) THEN NoVersion
     ELSE IF metadata # <<>> /\ ~validateMetadata(metadata) THEN NoVersion
     ELSE [err |-> "nil",
           major |-> ParseUint(m[1]),
           minor |-> IF Len(m) >= 2 THEN ParseUint(m[2]) ELSE 0,
           patch |-> IF Len(m) >= 3 THEN ParseUint(m[3]) ELSE 0,
           pre |-> pre, metadata |-> metadata]

\* the pre-release cut off the part of a version before its metadata
looseNoMeta(s, metadata) ==
  LET pi == IndexOf(s, "-")
  IN IF pi = 0 THEN looseVersion(s, <<>>, metadata)
     ELSE IF ~identifierParts(SubSeq(s, pi + 1, Len(s))) THEN NoVersion
     ELSE looseVersion(SubSeq(s, 1, pi - 1), SubSeq(s, pi + 1, Len(s)), metadata)

\* the build metadata cut off a version without its leading "v"
looseNoPrefix(s) ==
  LET bi == IndexOf(s, "+")
  IN IF bi = 0 THEN looseNoMeta(s, <<>>)
     ELSE IF ~identifierParts(SubSeq(s, bi + 1, Len(s))) THEN NoVersion
     ELSE looseNoMeta(SubSeq(s, 1, bi - 1), SubSeq(s, bi + 1, Len(s)))

\* semver.NewVersion(v), the lenient parser: an optional leading "v", one to
\* three numeric segments, an optional pre-release and optional metadata
NewVersion(v) ==
  IF v = <<>> THEN NoVersion
  ELSE IF v[1] = "v" THEN looseNoPrefix(SubSeq(v, 2, Len(v)))
  ELSE looseNoPrefix(v)

\* Version.Equal
Equal(v, o) == Compare(v, o) = 0

\* filepath.Base of a path given as the sequence of its elements
Base(path) == IF path = <<>> THEN <<".">> ELSE path[Len(path)]

\* a comparison that takes only version directories
validateVersionConsistencyStrictDir(p) ==
  IF NewVersion(p.Version).err # "nil" THEN "invalid version defined in manifest"
  ELSE IF NewVersion(Base(p.BasePath)).err # "nil" THEN "inconsistent versions"
  ELSE IF ~Equal(NewVersion(p.Version), NewVersion(Base(p.BasePath)))
  THEN "inconsistent versions"
  ELSE "nil"

\* the manifest's version against the directory name: a directory name that
\* is a version has to be the version; any other directory name is accepted
validateVersionConsistency(p) ==
  IF NewVersion(p.Version).err # "nil" THEN "invalid version defined in manifest"
  ELSE IF NewVersion(Base(p.BasePath)).err # "nil" THEN "nil"
  ELSE IF ~Equal(NewVersion(p.Version), NewVersion(Base(p.BasePath)))
  THEN "inconsistent versions"
  ELSE "nil"

\* the checks of the manifest's own fields that come before the categories
validateFields(p) ==
  IF p.FormatVersion = <<>> THEN "no format_version set"
  ELSE IF StrictNewVersion(p.FormatVersion).err # "nil"
  THEN "invalid package version"
  ELSE IF StrictNewVersion(p.Version).err # "nil" THEN "invalid semantic version"
  ELSE IF p.Title = Nil \/ p.Title = <<"">> THEN "no title set for package"
  ELSE IF p.Description = "" THEN "no description set"
  ELSE IF p.Versions # <<>> /\ parseConstraint(p.Versions).err # "nil"
  THEN "invalid Kibana versions"
  ELSE "nil"

\* a check of the first category only
validateCategoriesFirstOnly(categories) ==
  IF categories # <<>> /\ categories[1] \notin DOMAIN CategoryTitles
  THEN categories[1]
  ELSE ""

\* the first category that is not a key of the category table, "" if all are
RECURSIVE validateCategories(_)
validateCategories(categories) ==
  IF categories = <<>> THEN ""
  ELSE IF categories[1] \notin DOMAIN CategoryTitles THEN categories[1]
  ELSE validateCategories(Tail(categories))

\* what Validate returns: the error and, for an invalid category, its name
Validate(p) ==
  IF validateFields(p) # "nil"
  THEN [err |-> validateFields(p), category |-> ""]
  ELSE IF validateCategories(p.Categories) # ""
  THEN [err |-> "invalid category",
        category |-> validateCategories(p.Categories)]
  ELSE IF validateVersionConsistency(p) # "nil"
  THEN [err |-> "version in manifest file is not consistent with path",
        category |-> ""]
  ELSE [err |-> p.datasetsErr, category |-> ""]

\* Validate sets the parsed version once the fields and categories passed
validated(p) ==
  IF validateFields(p) = "nil" /\ validateCategories(p.Categories) = ""
  THEN [p EXCEPT !.versionSemVer = <<StrictNewVersion(p.Version)>>]
  ELSE p

MaxCategories == 2

V10      == <<"1", ".", "0">>
Vv100    == <<"v", "1", ".", "0", ".", "0">>
V100a    == <<"1", ".", "0", ".", "0", "-", "a">>
V100b1   == <<"1", ".", "0", ".", "0", "+", "1">>
V100b2   == <<"1", ".", "0", ".", "0", "+", "2">>
V1000    == <<"1", ".", "0", ".", "0", ".", "0">>
DirNamed == <<"a", "b", "c">>

\* versions a manifest may give, names the directory of a package may have
ManifestVersions  == {V100, V900, V100a, V100b2, V10, Vabc}
BaseDirNames      == {V100, V900, V100a, V100b1, V10, Vv100, V1000, DirNamed}
FormatVersions    == {<<>>, V100, Vabc}
Titles            == {Nil, <<"">>, <<"t">>}
Descriptions      == {"", "d"}
KibanaVersions    == {<<>>, <<"~", "1">>, <<"a">>}
CategoryNames     == {"logs", "metrics", "google_cloud"}
DatasetErrors     == {"nil", "invalid dataset"}

CategoryLists ==
  UNION {[1..n -> CategoryNames] : n \in 0..MaxCategories}

\* the packages NewPackage unpacks a manifest into
UnpackedPackages ==
  [FormatVersion : FormatVersions, Version : ManifestVersions,
   Title : Titles, Description : Descriptions, Versions : KibanaVersions,
   Categories : CategoryLists, BasePath : {<<NameA, d>> : d \in BaseDirNames},
   datasetsErr : DatasetErrors, versionSemVer : {Nil}]

InitValidate ==
  /\ ArtifactIdle
  /\ cmp = NoCmp
  /\ compat = NoCompat
  /\ QueryIdle
  /\ build = NoBuild
  /\ load = NoLoad
  /\ datasets = NoDatasets
  /\ dataset = NoDataSet
  /\ \E p \in UnpackedPackages : validate = [NoValidate EXCEPT !.step = "unpack", !.p = <<p>>]

\* manifest.Unpack calls Validate on the package
UnpackValidate ==
  /\ validate.step = "unpack"
  /\ validate' = [step     |-> "done",
                  p        |-> <<validated(validate.p[1])>>,
                  err      |-> Validate(validate.p[1]).err,
                  category |-> Validate(validate.p[1]).category]
  /\ UNCHANGED <<artifactVars, cmp, compat, queryVars, build, load, datasets, dataset>>

NextValidate == UnpackValidate

SpecValidate == InitValidate /\ [][NextValidate]_vars

\* Validate got as far as comparing the manifest's version with the path
ConsistencyChecked ==
  /\ validate.step = "done"
  /\ validate.err \notin {"no format_version set", "invalid package version",
                          "invalid semantic version", "no title set for package",
                          "no description set", "invalid Kibana versions",
                          "invalid category"}

\* the version each name stands for, written major.minor.patch[-pre-release];
\* a name that is no version stands for none
Denoted ==
  [n \in ManifestVersions \cup BaseDirNames |->
     CASE n \in {V100, V10, Vv100, V100b1, V100b2} -> "1.0.0"
       [] n = V900  -> "9.0.0"
       [] n = V100a -> "1.0.0-a"
       [] OTHER     -> "none"]

InconsistentWithPath ==
  validate.err = "version in manifest file is not consistent with path"

\* C21: a package whose manifest version is another version than the one its
\* base directory is named after fails validation with the inconsistency
\* error; it does not fail that way when the base directory's name is no
\* version, nor when both are the same version.
C21_VersionMatchesPath ==
  ConsistencyChecked =>
    LET dir      == Denoted[Base(validate.p[1].BasePath)]
        manifest == Denoted[validate.p[1].Version]
    IN /\ dir = "none" => ~InconsistentWithPath
       /\ dir # "none" /\ dir = manifest => ~InconsistentWithPath
       /\ dir # "none" /\ dir # manifest => InconsistentWithPath

C21_Witness ==
  /\ validate.step = "done"
  /\ validate.p[1].Version = V100
  /\ Base(validate.p[1].BasePath) = V900
  /\ InconsistentWithPath

\* the escape hatch: content rooted in a directory that is not a version
C21_NotRootedInVersionDir ==
  /\ validate.step = "done"
  /\ Base(validate.p[1].BasePath) = DirNamed
  /\ validate.err = "nil"

\* the categories of the package are all keys of the category table
AllCategoriesKnown ==
  \A i \in 1..Len(validate.p[1].Categories) :
     validate.p[1].Categories[i] \in DOMAIN CategoryTitles

\* the package as it was unpacked, with no category at all
WithoutCategories ==
  [validate.p[1] EXCEPT !.Categories = <<>>, !.versionSemVer = Nil]

\* C22: Validate fails when a category of the package is not a key of the
\* category table: with the invalid-category error naming such a category
\* whenever the package would be valid without its categories; a package
\* that validates has only categories of the table.
C22_CategoriesFromTable ==
  validate.step = "done" =>
    /\ ~AllCategoriesKnown => validate.err # "nil"
    /\ ~AllCategoriesKnown /\ Validate(WithoutCategories).err = "nil"
         => /\ validate.err = "invalid category"
            /\ validate.category \notin DOMAIN CategoryTitles
            /\ \E i \in 1..Len(validate.p[1].Categories) :
                  validate.p[1].Categories[i] = validate.category
    /\ validate.err = "invalid category" => ~AllCategoriesKnown
    /\ AllCategoriesKnown
         => validate.err = Validate(WithoutCategories).err

C22_Witness ==
  /\ validate.step = "done"
  /\ validate.p[1].Categories = <<"metrics", "google_cloud">>
  /\ validate.err = "invalid category"
  /\ validate.category = "google_cloud"

C22_ValidWithCategories ==
  /\ validate.step = "done"
  /\ Len(validate.p[1].Categories) = MaxCategories
  /\ validate.err = "nil"

(***************************************************************************)
(* DataSet.Validate, called while a dataset's manifest is unpacked.  The   *)
(* files of the dataset's elasticsearch/ingest-pipeline/ directory are a   *)
(* set of file names, each a pair of the name and its extension.           *)
(***************************************************************************)
\* strings.Contains(s, "-")
ContainsHyphen(s) == \E i \in 1..Len(s) : s[i] = "-"

\* os.Stat(pipelineDir + name + "." + ext) finds a file
StatPipeline(paths, name, ext) == <<name, ext>> \in paths

\* the pipeline after the search for default.json or default.yml
defaultPipeline(d, paths) ==
  IF d.IngestPipeline = "" /\ (<<"default", "json">> \in paths
                               \/ <<"default", "yml">> \in paths)
  THEN "default"
  ELSE d.IngestPipeline

\* a check that looks for the .json file only
validatePipelineJSONOnly(pipeline, paths) ==
  IF pipeline = "" /\ paths # {}
  THEN "Package contains pipelines which are not used"
  ELSE IF pipeline # "" /\ ~StatPipeline(paths, pipeline, "json")
  THEN "Defined ingest_pipeline does not exist"
  ELSE "nil"

\* what Validate returns for a pipeline and the files on disk
validatePipeline(pipeline, paths) ==
  IF pipeline = "" /\ paths # {}
  THEN "Package contains pipelines which are not used"
  ELSE IF /\ pipeline # ""
          /\ ~StatPipeline(paths, pipeline, "yml")
          /\ ~StatPipeline(paths, pipeline, "json")
  THEN "Defined ingest_pipeline does not exist"
  ELSE "nil"

\* the error DataSet.Validate returns
DataSetValidate(d, paths) ==
  IF ContainsHyphen(d.ID) THEN "dataset name is not allowed to contain -"
  ELSE validatePipeline(defaultPipeline(d, paths), paths)

\* the dataset DataSet.Validate leaves: a default pipeline that was found is
\* set unless the identifier was refused before
DataSetValidated(d, paths) ==
  IF ContainsHyphen(d.ID) THEN d
  ELSE [d EXCEPT !.IngestPipeline = defaultPipeline(d, paths)]

IdMR == <<"m", ".", "r">>

\* identifiers and pipelines a dataset manifest may give, files a pipeline
\* directory may hold
ManifestIDs     == {<<>>, IdMR, NameAB}
PipelineNames   == {"", "default", "p", "q"}
PipelineFiles   == {<<"default", "json">>, <<"default", "yml">>,
                    <<"p", "json">>, <<"p", "yml">>, <<"x", "json">>}

InitDataSetValidate ==
  /\ ArtifactIdle
  /\ cmp = NoCmp
  /\ compat = NoCompat
  /\ QueryIdle
  /\ build = NoBuild
  /\ load = NoLoad
  /\ validate = NoValidate
  /\ datasets = NoDatasets
  /\ \E id \in ManifestIDs, pipeline \in PipelineNames,
        paths \in SUBSET PipelineFiles :
       dataset = [NoDataSet EXCEPT
                    !.step = "unpack",
                    !.manifest = <<[ID |-> id, IngestPipeline |-> pipeline]>>,
                    !.d = <<[ID |-> id, IngestPipeline |-> pipeline]>>,
                    !.paths = paths]

\* manifest.Unpack calls Validate on the dataset
UnpackDataSet ==
  /\ dataset.step = "unpack"
  /\ dataset' = [dataset EXCEPT
                   !.step = "done",
                   !.d = <<DataSetValidated(dataset.d[1], dataset.paths)>>,
                   !.err = DataSetValidate(dataset.d[1], dataset.paths)]
  /\ UNCHANGED <<artifactVars, cmp, compat, queryVars, build, load, validate,
                 datasets>>

NextDataSetValidate == UnpackDataSet

SpecDataSetValidate == InitDataSetValidate /\ [][NextDataSetValidate]_vars

\* Validate has looked at the pipelines of the dataset
PipelinesChecked ==
  /\ dataset.step = "done"
  /\ dataset.err # "dataset name is not allowed to contain -"

\* a file of the given name, .json or .yml, is in the pipeline directory
PipelineOnDisk(name) ==
  \E f \in dataset.paths : f[1] = name /\ f[2] \in {"json", "yml"}

Referenced == dataset.manifest[1].IngestPipeline

C24_MissingReference ==
  /\ dataset.step = "done"
  /\ Referenced = "q"
  /\ dataset.paths # {}
  /\ dataset.err = "Defined ingest_pipeline does not exist"

C24_UnusedPipelines ==
  /\ dataset.step = "done"
  /\ dataset.err = "Package contains pipelines which are not used"

C24_YmlReference ==
  /\ dataset.step = "done"
  /\ Referenced = "p"
  /\ dataset.paths = {<<"p", "yml">>}
  /\ dataset.err = "nil"

(***************************************************************************)
(* Package.LoadDataSets: inside the package's dataset directory, every     *)
(* directory is unpacked into a DataSet (which validates it), gets its     *)
(* default identifier and release, has its streams linked to the inputs    *)
(* of the package's datasources, and is appended to the package.           *)
(***************************************************************************)
\* largest number of dataset directories of a package
MaxDatasets == 2

\* a stream as a dataset manifest declares it
NewStream(input, title) == [Input |-> input, Title |-> title, Dataset |-> <<>>]

StreamLists ==
  {<<>>,
   <<NewStream("logs", "s1")>>,
   <<NewStream("http", "s1")>>,
   <<NewStream("logs", "s1"), NewStream("metrics", "s2")>>,
   <<NewStream("metrics", "s1"), NewStream("logs", "s2")>>}

\* a datasource whose inputs have the given types
NewDatasource(types) ==
  [Inputs |-> [i \in 1..Len(types) |-> [Type |-> types[i], Streams |-> <<>>]]]

PackageDatasources ==
  {<<>>,
   <<NewDatasource(<<"logs">>)>>,
   <<NewDatasource(<<"logs", "metrics">>)>>,
   <<NewDatasource(<<"logs">>), NewDatasource(<<"metrics", "logs">>)>>}

\* the names of dataset directories, in the order filepath.Glob lists them
DatasetPaths == <<NameA, NameAB, NameM>>

\* what a dataset directory may hold: no manifest, or a manifest and the
\* files of its pipeline directory
DatasetDirs(path) ==
  {[Path |-> path, manifest |-> "missing", ID |-> <<>>, Streams |-> <<>>,
    paths |-> {}]}
  \cup [Path : {path}, manifest : {"ok"}, ID : ManifestIDs,
        Streams : StreamLists, paths : {{}, {<<"x", "json">>}}]

\* the dataset directories of a package: at most MaxDatasets, sorted by name
RECURSIVE DatasetDirLists(_, _)
DatasetDirLists(from, n) ==
  IF n = 0 \/ from > Len(DatasetPaths) THEN {<<>>}
  ELSE DatasetDirLists(from + 1, n)
       \cup {<<d>> \o rest : d \in DatasetDirs(DatasetPaths[from]),
                            rest \in DatasetDirLists(from + 1, n - 1)}

InitLoadDataSets ==
  /\ ArtifactIdle
  /\ cmp = NoCmp
  /\ compat = NoCompat
  /\ QueryIdle
  /\ build = NoBuild
  /\ load = NoLoad
  /\ validate = NoValidate
  /\ dataset = NoDataSet
  /\ \E name \in {NameM, NameAB}, datasources \in PackageDatasources,
        stat \in {"absent", "present", "denied"},
        dirs \in DatasetDirLists(1, MaxDatasets) :
       /\ stat # "present" => dirs = <<>>
       /\ datasets = [NoDatasets EXCEPT !.step = "stat", !.Name = name,
                                        !.Datasources = datasources,
                                        !.stat = stat, !.dirs = dirs]

\* os.Stat of the dataset directory, then the change into it and the glob
StatDatasetDir ==
  /\ datasets.step = "stat"
  /\ datasets' =
       IF datasets.stat = "absent" THEN [datasets EXCEPT !.step = "done"]
       ELSE IF datasets.stat = "denied"
       THEN [datasets EXCEPT !.step = "done", !.err = "stat"]
       ELSE IF datasets.dirs = <<>>
       THEN [datasets EXCEPT !.step = "done"]
       ELSE [datasets EXCEPT !.step = "loop", !.cwd = "dataset", !.i = 1]
  /\ UNCHANGED <<artifactVars, cmp, compat, queryVars, build, load, validate,
                 dataset>>

\* the dataset as it is unpacked from the manifest of a directory
Unpacked(name, dir) ==
  [ID |-> dir.ID, Release |-> "", IngestPipeline |-> "",
   Streams |-> dir.Streams, Package |-> name, Path |-> dir.Path]

\* a dataset that keeps the identifier of its manifest
WithDefaultsManifestID(name, d) ==
  [d EXCEPT !.Release = IF d.Release = "" THEN "beta" ELSE d.Release]

\* the identifier and release a dataset ends with
WithDefaults(name, d) ==
  [d EXCEPT !.ID = IF d.ID = <<>> THEN name \o <<".">> \o d.Path ELSE d.ID,
            !.Release = IF d.Release = "" THEN "beta" ELSE d.Release]

\* the streams of the dataset for an input type, each naming the dataset
RECURSIVE matchingStreams(_, _, _)
matchingStreams(streams, type, id) ==
  IF streams = <<>> THEN <<>>
  ELSE (IF streams[1].Input = type
        THEN <<[streams[1] EXCEPT !.Dataset = id]>>
        ELSE <<>>)
       \o matchingStreams(Tail(streams), type, id)

\* the datasources after the streams of a dataset were linked to their inputs
linkStreams(datasources, d) ==
  [dK \in 1..Len(datasources) |->
     [datasources[dK] EXCEPT
        !.Inputs = [iK \in 1..Len(datasources[dK].Inputs) |->
                      [datasources[dK].Inputs[iK] EXCEPT
                         !.Streams = @ \o matchingStreams(d.Streams,
                                                          datasources[dK].Inputs[iK].Type,
                                                          d.ID)]]]]

\* the state after one pass of the loop that ended with the given error
failDataSet(err) == [datasets EXCEPT !.step = "done", !.cwd = "/", !.err = err]

\* the state after one pass of the loop that added the dataset
addDataSet(d) ==
  [datasets EXCEPT
     !.Datasources = linkStreams(@, d),
     !.DataSets = Append(@, d),
     !.i = @ + 1,
     !.step = IF datasets.i = Len(datasets.dirs) THEN "done" ELSE "loop",
     !.cwd = IF datasets.i = Len(datasets.dirs) THEN "/" ELSE "dataset"]

\* one pass of the loop over the dataset directories; the function returns
\* after the last one or on the first error, back in the old directory
LoadDataSet ==
  /\ datasets.step = "loop"
  /\ datasets' =
       IF datasets.dirs[datasets.i].manifest = "missing"
       THEN failDataSet("manifest does not exist for package")
       ELSE IF DataSetValidate(Unpacked(datasets.Name, datasets.dirs[datasets.i]),
                               datasets.dirs[datasets.i].paths) # "nil"
       THEN failDataSet("error building dataset")
       ELSE addDataSet(WithDefaults(datasets.Name,
                         DataSetValidated(Unpacked(datasets.Name,
                                                   datasets.dirs[datasets.i]),
                                          datasets.dirs[datasets.i].paths)))
  /\ UNCHANGED <<artifactVars, cmp, compat, queryVars, build, load, validate,
                 dataset>>

NextLoadDataSets == StatDatasetDir \/ LoadDataSet

SpecLoadDataSets == InitLoadDataSets /\ [][NextLoadDataSets]_vars

\* LoadDataSets returned nil
DataSetsLoaded == datasets.step = "done" /\ datasets.err = "nil"

\* C23: after LoadDataSets returned nil no dataset of the package has a hyphen
\* in its identifier, defaulted identifiers included, and a dataset whose
\* manifest gave no identifier is called {package name}.{directory name}.
C23_NoHyphenInDatasetIDs ==
  DataSetsLoaded =>
    \A i \in 1..Len(datasets.DataSets) :
       /\ ~ContainsHyphen(datasets.DataSets[i].ID)
       /\ datasets.dirs[i].ID = <<>>
            => datasets.DataSets[i].ID
                 = datasets.Name \o <<".">> \o datasets.dirs[i].Path

\* a dataset was loaded whose defaulted identifier has a hyphen
C23_HyphenInDefaultID ==
  /\ DataSetsLoaded
  /\ datasets.Name = NameM
  /\ Len(datasets.DataSets) = 1
  /\ datasets.dirs[1].ID = <<>>
  /\ datasets.DataSets[1].ID = <<"m", ".", "a", "-", "b">>

\* the identifier a loaded dataset ends with
FinalID(i) ==
  IF datasets.dirs[i].ID = <<>>
  THEN datasets.Name \o <<".">> \o datasets.dirs[i].Path
  ELSE datasets.dirs[i].ID

\* the streams of the loaded datasets that name the input type, as places:
\* the number of the dataset and the number of the stream in it
StreamsFor(type) ==
  {pl \in (1..MaxDatasets + 1) \X (1..2) :
     /\ pl[1] <= Len(datasets.dirs)
     /\ pl[2] <= Len(datasets.dirs[pl[1]].Streams)
     /\ datasets.dirs[pl[1]].Streams[pl[2]].Input = type}

\* the position a place has among the places of its input type
Position(type, pl) ==
  Cardinality({q \in StreamsFor(type) :
                 q[1] < pl[1] \/ (q[1] = pl[1] /\ q[2] <= pl[2])})

\* the input's stream list is the streams of its type, in dataset order, each
\* naming its dataset
LinkedExactly(input) ==
  /\ Len(input.Streams) = Cardinality(StreamsFor(input.Type))
  /\ \A pl \in StreamsFor(input.Type) :
        input.Streams[Position(input.Type, pl)]
          = [datasets.dirs[pl[1]].Streams[pl[2]] EXCEPT !.Dataset = FinalID(pl[1])]

C25_UnmatchedStream ==
  /\ DataSetsLoaded
  /\ Len(datasets.DataSets) = 1
  /\ datasets.DataSets[1].Streams = <<NewStream("http", "s1")>>
  /\ Len(datasets.Datasources) = 1
  /\ datasets.Datasources[1].Inputs[1].Streams = <<>>

====
